---- MODULE Spec2Model ----
(***************************************************************************)
(* TimePlanner: attendance store, smart attendance reports, salary         *)
(* deduction, currency conversion and the renderer's aggregations.         *)
(*                                                                         *)
(* The specifications share the variables:                                 *)
(*   Spec          the attendance table, the clock and the smart reports   *)
(*   SpecSalary    calculateSalaryDeduction applied to bounded inputs      *)
(*   SpecCurrency  convertCurrency applied to bounded inputs               *)
(*   SpecCosts     getMonthTotal of the cost page                          *)
(*   SpecIncome    incomeForPeriod of the report page                      *)
(*   SpecPage      the report page: month selection, fetches, chart, KPIs  *)
(*   SpecStore     the attendance table with ids and its mutating calls    *)
(*   SpecDetail    a monthly report fetched and its salary deduction       *)
(*   SpecDaily     getDailySummary of the attendance calendar              *)
(*   SpecWeekdays  countWeekdays called on its own                         *)
(*   SpecYear      yearly smart reports over a fixed table                 *)
(*   SpecRates     one refresh of the currency rates                       *)
(*   SpecMonthStart  as SpecDetail, in the first days of a month           *)
(*   SpecBulk      one bulkSetAttendance call, recorded                    *)
(*   SpecVat       getVatQuarterInfo called on its own                     *)
(*   SpecChart     the chart's six points for every selected month         *)
(*                                                                         *)
(* JavaScript numbers are modelled as exact rationals plus NaN, the two    *)
(* infinities and null; the rounding of IEEE doubles is not modelled.      *)
(***************************************************************************)
EXTENDS Integers, Sequences, FiniteSets

VARIABLES
    attendance,   \* rows of the attendance table: [employee_id, date, status]
    today,        \* the local calendar day the clock shows (day number)
    smartReport,  \* the last smart report returned, with its request; or NoReport
    baseSalary,   \* calculateSalaryDeduction: argument baseSalary
    report,       \* calculateSalaryDeduction: argument report
    deduction,    \* calculateSalaryDeduction: the returned result; or NoResult
    amount,       \* convertCurrency: argument amount
    from,         \* convertCurrency: argument from
    to,           \* convertCurrency: argument to
    rates,        \* convertCurrency: argument rates (a set of rows)
    converted,    \* convertCurrency: the returned number; or NoResult
    displayCurrency, \* renderer: the currency amounts are shown in
    pageRates,    \* renderer: the rate table the pages were given
    costs,        \* CostPage: the costs array
    costTarget,   \* getMonthTotal: arguments <<targetYear, targetMonth>>
    costTotal,    \* getMonthTotal: the returned total; or NoResult
    contracts,    \* useIncome: the consultant contracts array
    adRevenue,    \* useIncome: the ad revenue array
    iapRevenue,   \* useIncome: the in-app purchase revenue array
    selected,     \* ReportPage: <<selectedYear, selectedMonth>>
    income,       \* incomeForPeriod: the memoised value; or NoResult
    allEmployeeReports, \* ReportPage: state, employee id -> smart report
    loadingAll,   \* ReportPage: state
    chartReportsCache,  \* ReportPage: ref, <<year, month>> -> map of reports
    fetches,      \* ReportPage: the fetchAllReports calls awaiting their reports
    monthlyData,  \* ReportChart: the memoised six points; or Unmounted
    shown,        \* ReportPage: what the last render computed and displayed
    nextId,       \* attendance table: the id the next inserted row gets
    lastSet,      \* history: per (employee_id, date), the status of the last
                  \* successful set, or "none" at the start and after a delete
    currentDate,  \* AttendanceCalendar: state, the date of the daily view
    dailyEntries, \* AttendanceCalendar: state, one entry per employee
    dailySummary, \* getDailySummary: the returned counts; or NoResult
    weekdayArgs,  \* countWeekdays: arguments [startDate, endDate]
    weekdayResult, \* countWeekdays: how the call ended; or NoResult
    currencyRates, \* table currency_rates: <<from_curr, to_curr>> -> rate
    updatePending, \* updateCurrencyRates: the rows its loop has still to upsert
    fetchLatestResult, \* currency:fetchLatest: what the handler returned; or NoResult
    refreshPc,    \* useCurrency.refreshRates: where the call stands
    hookRates,    \* useCurrency: state rates, as fetchRates set it; or NoResult
    vatDate,      \* getVatQuarterInfo: argument date
    vatInfo,      \* getVatQuarterInfo: the returned record; or NoResult
    lastBulk      \* history: the bulkSetAttendance call that was made, with the
                  \* rows before it; or NoResult

vars == <<attendance, today, smartReport, baseSalary, report, deduction,
          amount, from, to, rates, converted,
          displayCurrency, pageRates, costs, costTarget, costTotal,
          contracts, adRevenue, iapRevenue, selected, income,
          allEmployeeReports, loadingAll, chartReportsCache, fetches, monthlyData, shown,
          nextId, lastSet, currentDate, dailyEntries, dailySummary,
          weekdayArgs, weekdayResult,
          currencyRates, updatePending, fetchLatestResult, refreshPc, hookRates,
          vatDate, vatInfo, lastBulk>>

\* The variables of the renderer's pages
uiVars == <<displayCurrency, pageRates>>
costVars == <<costs, costTarget, costTotal>>
incomeVars == <<contracts, adRevenue, iapRevenue, selected, income>>
pageVars == <<allEmployeeReports, loadingAll, chartReportsCache, fetches, monthlyData, shown>>
storeVars == <<nextId, lastSet>>
dailyVars == <<currentDate, dailyEntries, dailySummary>>
\* The variables of the functions that are called on their own
weekdayVars == <<weekdayArgs, weekdayResult>>
vatVars == <<vatDate, vatInfo>>
\* The variables of the refresh of the currency rates
syncVars == <<currencyRates, updatePending, fetchLatestResult, refreshPc, hookRates>>
utilVars == <<weekdayVars, vatVars, syncVars, lastBulk>>
viewVars == <<uiVars, costVars, incomeVars, pageVars, storeVars, dailyVars, utilVars>>

attendanceVars == <<attendance, today, smartReport>>
salaryVars == <<baseSalary, report, deduction>>
currencyVars == <<amount, from, to, rates, converted>>

NoReport == [kind |-> "none"]
NoResult == [kind |-> "none"]

Max(a, b) == IF a >= b THEN a ELSE b

(***************************************************************************)
(* JavaScript numbers: a finite value is the reduced fraction n/d, d > 0.  *)
(***************************************************************************)
Abs(x) == IF x < 0 THEN -x ELSE x
Sign(x) == IF x < 0 THEN -1 ELSE IF x = 0 THEN 0 ELSE 1

RECURSIVE GCD(_, _)
GCD(a, b) == IF b = 0 THEN a ELSE GCD(b, a % b)

Fin(n, d) ==
    LET g == GCD(Abs(n), Abs(d))
    IN [kind |-> "fin", n |-> Sign(d) * (n \div g), d |-> Abs(d) \div g]
Num(n) == [kind |-> "fin", n |-> n, d |-> 1]
NaN == [kind |-> "nan"]
Inf(sign) == [kind |-> "inf", sign |-> sign]
Null == [kind |-> "null"]
Undefined == [kind |-> "undefined"]

\* ToNumber: null becomes 0, undefined becomes NaN
ToNumber(a) ==
    IF a.kind = "null" THEN Num(0) ELSE IF a.kind = "undefined" THEN NaN ELSE a

\* isNaN(a)
IsNaN(a) == ToNumber(a).kind = "nan"
SignOf(a) == IF a.kind = "inf" THEN a.sign ELSE Sign(a.n)

\* a * b
JsMul(x, y) ==
    LET a == ToNumber(x)
        b == ToNumber(y)
    IN IF a.kind = "nan" \/ b.kind = "nan" THEN NaN
       ELSE IF a.kind = "fin" /\ b.kind = "fin" THEN Fin(a.n * b.n, a.d * b.d)
       ELSE IF SignOf(a) * SignOf(b) = 0 THEN NaN
       ELSE Inf(SignOf(a) * SignOf(b))

\* a + b
JsAdd(x, y) ==
    LET a == ToNumber(x)
        b == ToNumber(y)
    IN IF a.kind = "nan" \/ b.kind = "nan" THEN NaN
       ELSE IF a.kind = "fin" /\ b.kind = "fin" THEN Fin(a.n * b.d + b.n * a.d, a.d * b.d)
       ELSE IF a.kind = "inf" /\ b.kind = "inf"
            THEN (IF a.sign = b.sign THEN a ELSE NaN)
       ELSE IF a.kind = "inf" THEN a
       ELSE b

\* a - b
JsSub(x, y) ==
    LET a == ToNumber(x)
        b == ToNumber(y)
    IN IF a.kind = "nan" \/ b.kind = "nan" THEN NaN
       ELSE IF a.kind = "fin" /\ b.kind = "fin" THEN Fin(a.n * b.d - b.n * a.d, a.d * b.d)
       ELSE IF a.kind = "inf" /\ b.kind = "inf"
            THEN (IF a.sign = b.sign THEN NaN ELSE a)
       ELSE IF a.kind = "inf" THEN a
       ELSE Inf(-b.sign)

\* a / b (signed zeros are not distinguished: x / 0 is +-Infinity by the sign of x)
JsDiv(x, y) ==
    LET a == ToNumber(x)
        b == ToNumber(y)
    IN IF a.kind = "nan" \/ b.kind = "nan" THEN NaN
       ELSE IF a.kind = "fin" /\ b.kind = "fin"
            THEN (IF b.n # 0 THEN Fin(a.n * b.d, a.d * b.n)
                  ELSE IF a.n = 0 THEN NaN ELSE Inf(Sign(a.n)))
       ELSE IF a.kind = "inf" /\ b.kind = "inf" THEN NaN
       ELSE IF a.kind = "inf" THEN Inf(a.sign * (IF SignOf(b) < 0 THEN -1 ELSE 1))
       ELSE Num(0)

(***************************************************************************)
(* Calendar: a JavaScript Date in local time is [day, ms], day counted     *)
(* from Monday 2024-01-01 and ms the milliseconds since local midnight.    *)
(***************************************************************************)
IsLeapYear(y) == (y % 4 = 0 /\ y % 100 # 0) \/ y % 400 = 0

DaysInYear(y) == IF IsLeapYear(y) THEN 366 ELSE 365

\* m is 1-based
DaysInMonth(y, m) ==
    IF m = 2 THEN (IF IsLeapYear(y) THEN 29 ELSE 28)
    ELSE IF m \in {4, 6, 9, 11} THEN 30 ELSE 31

RECURSIVE DaysBeforeYear(_)
DaysBeforeYear(y) ==
    IF y = 2024 THEN 0
    ELSE IF y > 2024 THEN DaysBeforeYear(y - 1) + DaysInYear(y - 1)
    ELSE DaysBeforeYear(y + 1) - DaysInYear(y)

RECURSIVE DaysBeforeMonth(_, _)
DaysBeforeMonth(y, m) ==
    IF m <= 1 THEN 0 ELSE DaysBeforeMonth(y, m - 1) + DaysInMonth(y, m - 1)

\* new Date(year, monthIndex, date): monthIndex is 0-based and may be 12,
\* date may be 0 (the last day of the month before); local midnight.
NewDate(year, monthIndex, date) ==
    LET y == IF monthIndex >= 12 THEN year + 1 ELSE year
        m == IF monthIndex >= 12 THEN monthIndex - 11 ELSE monthIndex + 1
    IN [day |-> DaysBeforeYear(y) + DaysBeforeMonth(y, m) + date - 1, ms |-> 0]

\* Date.prototype.getDay(): 0 = Sunday ... 6 = Saturday
GetDay(d) == (d.day + 1) % 7

\* today.setHours(23, 59, 59, 999)
SetHoursEndOfDay(d) == [d EXCEPT !.ms = ((23 * 60 + 59) * 60 + 59) * 1000 + 999]

\* current.setDate(current.getDate() + 1)
AddOneDay(d) == [d EXCEPT !.day = @ + 1]

\* An Invalid Date: its time value is NaN
InvalidDate == [day |-> 0, ms |-> 0, invalid |-> TRUE]
IsInvalidDate(d) == "invalid" \in DOMAIN d

\* a <= b and a > b on time values; every comparison with NaN is false
DateLE(a, b) ==
    IF IsInvalidDate(a) \/ IsInvalidDate(b) THEN FALSE
    ELSE a.day < b.day \/ (a.day = b.day /\ a.ms <= b.ms)
DateGT(a, b) ==
    IF IsInvalidDate(a) \/ IsInvalidDate(b) THEN FALSE
    ELSE b.day < a.day \/ (a.day = b.day /\ b.ms < a.ms)

\* An ISO date string 'YYYY-MM-DD' with zero padding; strings of this shape
\* compare as the numbers YYYYMMDD do.
DateStr(y, m, d) == y * 10000 + m * 100 + d

Years == {2024, 2025}
Months == 1 .. 12

\* The calendar dates of the modelled years, as (day number, date string) pairs
Calendar ==
    { [day |-> NewDate(y, m - 1, d).day, str |-> DateStr(y, m, d), y |-> y, m |-> m, d |-> d] :
        <<y, m, d>> \in { t \in Years \X Months \X (1 .. 31) : t[3] <= DaysInMonth(t[1], t[2]) } }

StrOfDay(n) == (CHOOSE c \in Calendar : c.day = n).str
DayOfStr(s) == (CHOOSE c \in Calendar : c.str = s).day

\* getFullYear(), getMonth() (0-based) and getDate() of a date of the modelled years
GetFullYear(d) == (CHOOSE c \in Calendar : c.day = d.day).y
GetMonth(d) == (CHOOSE c \in Calendar : c.day = d.day).m - 1
GetDate(d) == (CHOOSE c \in Calendar : c.day = d.day).d

(***************************************************************************)
(* Bounds and input sets of the attendance specification                   *)
(***************************************************************************)
MaxRecords == 3

Employees == {1, 2}
Statuses == {"worked", "sick", "vacation"}

\* Thu 2024-02-29 .. Sun 2024-03-03: a leap day, a month boundary, a weekend
FirstDay == NewDate(2024, 1, 29).day
LastDay == NewDate(2024, 2, 3).day
AttendanceDates == { StrOfDay(n) : n \in FirstDay .. LastDay }

\* The months a monthly report is requested for: a 31-day month before the
\* clock, the leap February, March (which the clock enters), a 30-day month
\* ahead, and December (new Date(year, 12, 0))
ReportMonths == {1, 2, 3, 4, 12}

(***************************************************************************)
(* Attendance table: UNIQUE(employee_id, date)                             *)
(***************************************************************************)
\* supabase upsert with onConflict 'employee_id,date'
Upsert(table, row) ==
    { r \in table : ~(r.employee_id = row.employee_id /\ r.date = row.date) } \cup {row}

\* setAttendance(attendance)
setAttendance(e, d, s) ==
    /\ smartReport = NoReport
    /\ LET row == [employee_id |-> e, date |-> d, status |-> s]
       IN /\ Cardinality(Upsert(attendance, row)) <= MaxRecords
          /\ attendance' = Upsert(attendance, row)
    /\ UNCHANGED <<today, smartReport, salaryVars, currencyVars, viewVars>>

\* deleteAttendanceByEmployeeAndDate(employeeId, date)
deleteAttendanceByEmployeeAndDate(e, d) ==
    /\ smartReport = NoReport
    /\ \E r \in attendance : r.employee_id = e /\ r.date = d
    /\ attendance' = { r \in attendance : ~(r.employee_id = e /\ r.date = d) }
    /\ UNCHANGED <<today, smartReport, salaryVars, currencyVars, viewVars>>

\* The clock passes local midnight
Tick ==
    /\ smartReport = NoReport
    /\ today < LastDay
    /\ today' = today + 1
    /\ UNCHANGED <<attendance, smartReport, salaryVars, currencyVars, viewVars>>

(***************************************************************************)
(* Smart reports                                                           *)
(***************************************************************************)
RECURSIVE countWeekdaysFrom(_, _, _)

\* Mutant: only Saturday is skipped
countWeekdaysFrom_SundayCounted(current, endDate, count) ==
    IF DateLE(current, endDate)
    THEN countWeekdaysFrom(AddOneDay(current), endDate,
                           IF GetDay(current) # 6 THEN count + 1 ELSE count)
    ELSE count

countWeekdaysFrom(current, endDate, count) ==
    IF DateLE(current, endDate)
    THEN countWeekdaysFrom(AddOneDay(current), endDate,
                           IF GetDay(current) # 0 /\ GetDay(current) # 6
                           THEN count + 1 ELSE count)
    ELSE count

countWeekdays(startDate, endDate) == countWeekdaysFrom(startDate, endDate, 0)

\* Mutant: the employee filter is missing
SelectExceptions_AnyEmployee(table, e, lo, hi) ==
    { r \in table : /\ r.date >= lo
                    /\ r.date <= hi
                    /\ r.status \in {"sick", "vacation"} }

\* .eq('employee_id', e).gte('date', lo).lte('date', hi).in('status', [sick, vacation])
SelectExceptions(table, e, lo, hi) ==
    { r \in table : /\ r.employee_id = e
                    /\ r.date >= lo
                    /\ r.date <= hi
                    /\ r.status \in {"sick", "vacation"} }

CountStatus(records, s) == Cardinality({ r \in records : r.status = s })

\* Mutant: vacation days count as worked
WorkedDays_VacationWorked(workdays, sick, vacation) == Max(0, workdays - sick)

\* Mutant: no clamp at zero
WorkedDays_Unclamped(workdays, sick, vacation) == workdays - sick - vacation

\* Math.max(0, workdays - sick - vacation)
WorkedDays(workdays, sick, vacation) == Max(0, workdays - sick - vacation)

\* Mutant: a period ahead of the clock is not recognised
IsFuturePeriod_Never(startDate, todayEnd) == FALSE

\* if (startDate > today)
IsFuturePeriod(startDate, todayEnd) == DateGT(startDate, todayEnd)

\* The part the monthly and the yearly report share
SmartReportOf(table, now, e, startDate, endDate, lo, hi) ==
    LET todayEnd == SetHoursEndOfDay([day |-> now, ms |-> 0])
        effectiveEndDate == IF DateGT(endDate, todayEnd) THEN todayEnd ELSE endDate
    IN IF IsFuturePeriod(startDate, todayEnd)
       THEN [workdays |-> 0, worked |-> 0, sick |-> 0, vacation |-> 0]
       ELSE LET workdays == countWeekdays(startDate, effectiveEndDate)
                records == SelectExceptions(table, e, lo, hi)
                sick == CountStatus(records, "sick")
                vacation == CountStatus(records, "vacation")
            IN [workdays |-> workdays,
                worked |-> WorkedDays(workdays, sick, vacation),
                sick |-> sick,
                vacation |-> vacation]

SmartMonthlyReport(table, now, e, year, month) ==
    LET startDate == NewDate(year, month - 1, 1)
        endDate == NewDate(year, month, 0)
        lastDate == endDate.day - startDate.day + 1   \* endDate.getDate()
    IN SmartReportOf(table, now, e, startDate, endDate,
                     DateStr(year, month, 1), DateStr(year, month, lastDate))

SmartYearlyReport(table, now, e, year) ==
    SmartReportOf(table, now, e, NewDate(year, 0, 1), NewDate(year, 11, 31),
                  DateStr(year, 1, 1), DateStr(year, 12, 31))

\* getSmartMonthlyAttendanceReport(employeeId, year, month)
getSmartMonthlyAttendanceReport(e, year, month) ==
    /\ smartReport = NoReport
    /\ smartReport' = [kind |-> "monthly", employee_id |-> e, year |-> year, month |-> month,
                       result |-> SmartMonthlyReport(attendance, today, e, year, month)]
    /\ UNCHANGED <<attendance, today, salaryVars, currencyVars, viewVars>>

\* getSmartYearlyAttendanceReport(employeeId, year)
getSmartYearlyAttendanceReport(e, year) ==
    /\ smartReport = NoReport
    /\ smartReport' = [kind |-> "yearly", employee_id |-> e, year |-> year, month |-> 0,
                       result |-> SmartYearlyReport(attendance, today, e, year)]
    /\ UNCHANGED <<attendance, today, salaryVars, currencyVars, viewVars>>

\* The caller takes the report; the next request can be made
ReturnReport ==
    /\ smartReport # NoReport
    /\ smartReport' = NoReport
    /\ UNCHANGED <<attendance, today, salaryVars, currencyVars, viewVars>>

(***************************************************************************)
(* Salary deduction                                                        *)
(***************************************************************************)
MaxWorkdays == 21
MaxSick == 5
MaxVacation == 2

BaseSalaries == {Num(0), Num(3000), Num(4000), Fin(5001, 2)}

\* SmartAttendanceReport values handed to calculateSalaryDeduction
Reports ==
    { r \in [workdays : 0 .. MaxWorkdays, worked : 0 .. MaxWorkdays,
             sick : 0 .. MaxSick, vacation : 0 .. MaxVacation] :
        r.worked \in {0, WorkedDays(r.workdays, r.sick, r.vacation)} }

\* Mutant: the ratio of the sick days is paid
SalaryDeduction_SickRatio(base, r) ==
    IF r.workdays = 0
    THEN [baseSalary |-> base, adjustedSalary |-> base, deductionAmount |-> Num(0),
          sickDays |-> r.sick, workdays |-> r.workdays]
    ELSE LET workedDaysRatio == JsDiv(Num(r.sick), Num(r.workdays))
             adjustedSalary == JsMul(base, workedDaysRatio)
         IN [baseSalary |-> base, adjustedSalary |-> adjustedSalary,
             deductionAmount |-> JsSub(base, adjustedSalary),
             sickDays |-> r.sick, workdays |-> r.workdays]

\* Mutant: vacation days are deducted too
SalaryDeduction_VacationDeducted(base, r) ==
    IF r.workdays = 0
    THEN [baseSalary |-> base, adjustedSalary |-> base, deductionAmount |-> Num(0),
          sickDays |-> r.sick, workdays |-> r.workdays]
    ELSE LET workedDaysRatio == JsDiv(Num(r.workdays - r.sick - r.vacation), Num(r.workdays))
             adjustedSalary == JsMul(base, workedDaysRatio)
         IN [baseSalary |-> base, adjustedSalary |-> adjustedSalary,
             deductionAmount |-> JsSub(base, adjustedSalary),
             sickDays |-> r.sick, workdays |-> r.workdays]

\* Mutant: no guard for workdays = 0
SalaryDeduction_NoZeroGuard(base, r) ==
    LET workedDaysRatio == JsDiv(Num(r.workdays - r.sick), Num(r.workdays))
        adjustedSalary == JsMul(base, workedDaysRatio)
    IN [baseSalary |-> base, adjustedSalary |-> adjustedSalary,
        deductionAmount |-> JsSub(base, adjustedSalary),
        sickDays |-> r.sick, workdays |-> r.workdays]

\* calculateSalaryDeduction(baseSalary, report), as a function of its arguments
SalaryDeduction(base, r) ==
    IF r.workdays = 0
    THEN [baseSalary |-> base, adjustedSalary |-> base, deductionAmount |-> Num(0),
          sickDays |-> r.sick, workdays |-> r.workdays]
    ELSE LET workedDaysRatio == JsDiv(Num(r.workdays - r.sick), Num(r.workdays))
             adjustedSalary == JsMul(base, workedDaysRatio)
         IN [baseSalary |-> base, adjustedSalary |-> adjustedSalary,
             deductionAmount |-> JsSub(base, adjustedSalary),
             sickDays |-> r.sick, workdays |-> r.workdays]

\* calculateSalaryDeduction(baseSalary, report)
calculateSalaryDeduction ==
    /\ deduction = NoResult
    /\ report # NoResult
    /\ deduction' = SalaryDeduction(baseSalary, report)
    /\ UNCHANGED <<baseSalary, report, attendanceVars, currencyVars, viewVars>>

(***************************************************************************)
(* Currency conversion                                                     *)
(***************************************************************************)
MaxRates == 3

\* export const CURRENCIES
Currencies == {"USD", "IDR", "SEK"}

Amounts == {Num(100), Fin(-7, 2), NaN, Inf(1), Inf(-1), Null, Undefined}
RateValues == {Num(3), Fin(1, 2)}

\* currency_rates is UNIQUE(from_curr, to_curr): a rate table is a set of rows
\* with at most one row for a pair
RateRows == [from_curr : Currencies, to_curr : Currencies, rate : RateValues]
RateTables ==
    { t \in SUBSET RateRows :
        /\ Cardinality(t) <= MaxRates
        /\ \A r1, r2 \in t :
              (r1.from_curr = r2.from_curr /\ r1.to_curr = r2.to_curr) => r1 = r2 }

\* rates.find(r => r.from_curr === f && r.to_curr === t): the set holding the
\* row found, empty when find returns undefined
Find(table, f, t) == { r \in table : r.from_curr = f /\ r.to_curr = t }
RateOf(found) == (CHOOSE r \in found : TRUE).rate

\* Mutant: no identity short-circuit
ConvertCurrency_NoIdentity(a, f, t, table) ==
    IF table = {} THEN a
    ELSE IF a.kind \in {"null", "undefined"} \/ IsNaN(a) THEN Num(0)
    ELSE IF Find(table, f, t) # {} THEN JsMul(a, RateOf(Find(table, f, t)))
    ELSE IF Find(table, f, "USD") # {} /\ Find(table, "USD", t) # {}
         THEN JsMul(JsMul(a, RateOf(Find(table, f, "USD"))), RateOf(Find(table, "USD", t)))
    ELSE a

\* Mutant: the USD pivot is tried before the direct rate
ConvertCurrency_PivotFirst(a, f, t, table) ==
    IF f = t THEN a
    ELSE IF table = {} THEN a
    ELSE IF a.kind \in {"null", "undefined"} \/ IsNaN(a) THEN Num(0)
    ELSE IF Find(table, f, "USD") # {} /\ Find(table, "USD", t) # {}
         THEN JsMul(JsMul(a, RateOf(Find(table, f, "USD"))), RateOf(Find(table, "USD", t)))
    ELSE IF Find(table, f, t) # {} THEN JsMul(a, RateOf(Find(table, f, t)))
    ELSE a

\* Mutant: the pivot applies the first leg only
ConvertCurrency_OneLeg(a, f, t, table) ==
    IF f = t THEN a
    ELSE IF table = {} THEN a
    ELSE IF a.kind \in {"null", "undefined"} \/ IsNaN(a) THEN Num(0)
    ELSE IF Find(table, f, t) # {} THEN JsMul(a, RateOf(Find(table, f, t)))
    ELSE IF Find(table, f, "USD") # {} /\ Find(table, "USD", t) # {}
         THEN JsMul(a, RateOf(Find(table, f, "USD")))
    ELSE a

\* Mutant: 0 when no rate is found
ConvertCurrency_FallbackZero(a, f, t, table) ==
    IF f = t THEN a
    ELSE IF table = {} THEN a
    ELSE IF a.kind \in {"null", "undefined"} \/ IsNaN(a) THEN Num(0)
    ELSE IF Find(table, f, t) # {} THEN JsMul(a, RateOf(Find(table, f, t)))
    ELSE IF Find(table, f, "USD") # {} /\ Find(table, "USD", t) # {}
         THEN JsMul(JsMul(a, RateOf(Find(table, f, "USD"))), RateOf(Find(table, "USD", t)))
    ELSE Num(0)

\* Mutant: no check of the amount
ConvertCurrency_NoNaNGuard(a, f, t, table) ==
    IF f = t THEN a
    ELSE IF table = {} THEN a
    ELSE IF Find(table, f, t) # {} THEN JsMul(a, RateOf(Find(table, f, t)))
    ELSE IF Find(table, f, "USD") # {} /\ Find(table, "USD", t) # {}
         THEN JsMul(JsMul(a, RateOf(Find(table, f, "USD"))), RateOf(Find(table, "USD", t)))
    ELSE a

\* convertCurrency(amount, from, to, rates), as a function of its arguments
ConvertCurrency(a, f, t, table) ==
    IF f = t THEN a
    ELSE IF table = {} THEN a
    ELSE IF a.kind \in {"null", "undefined"} \/ IsNaN(a) THEN Num(0)
    ELSE IF Find(table, f, t) # {} THEN JsMul(a, RateOf(Find(table, f, t)))
    ELSE IF Find(table, f, "USD") # {} /\ Find(table, "USD", t) # {}
         THEN JsMul(JsMul(a, RateOf(Find(table, f, "USD"))), RateOf(Find(table, "USD", t)))
    ELSE a

\* convertCurrency(amount, from, to, rates)
convertCurrency ==
    /\ converted = NoResult
    /\ converted' = ConvertCurrency(amount, from, to, rates)
    /\ UNCHANGED <<amount, from, to, rates, attendanceVars, salaryVars, viewVars>>

(***************************************************************************)
(* Renderer inputs: display currency and rate table                        *)
(***************************************************************************)
\* A table with a row for every pair of USD and SEK, and the empty table
UsdSekRates ==
    { [from_curr |-> "USD", to_curr |-> "SEK", rate |-> Num(10)],
      [from_curr |-> "SEK", to_curr |-> "USD", rate |-> Fin(1, 10)],
      [from_curr |-> "USD", to_curr |-> "USD", rate |-> Num(1)],
      [from_curr |-> "SEK", to_curr |-> "SEK", rate |-> Num(1)] }
DisplayCurrencies == {"USD", "SEK"}

(***************************************************************************)
(* Cost page: getMonthTotal                                                *)
(***************************************************************************)
MaxCosts == 2

CostMonths == {<<2023, 12>>, <<2024, 1>>, <<2024, 3>>, <<2024, 6>>}
CostTargets == {<<2024, 1>>, <<2024, 3>>, <<2024, 4>>, <<2024, 6>>}
CostAmounts == {[amount |-> Num(100), currency |-> "USD"], [amount |-> Num(70), currency |-> "SEK"]}

\* Cost rows (the fields getMonthTotal reads)
CostRows ==
    { [amount |-> a.amount, currency |-> a.currency, year |-> ym[1], month |-> ym[2],
       is_recurring |-> rec, is_active |-> act] :
        a \in CostAmounts, ym \in CostMonths, rec \in BOOLEAN, act \in BOOLEAN }

\* Mutant: a deactivated recurring cost is still counted
CostApplies_IgnoresActive(cost, targetYear, targetMonth) ==
    IF cost.is_recurring
    THEN cost.year * 12 + cost.month <= targetYear * 12 + targetMonth
    ELSE cost.year = targetYear /\ cost.month = targetMonth

\* The two if-branches of the loop body: is the cost added to the total
CostApplies(cost, targetYear, targetMonth) ==
    LET costDate == cost.year * 12 + cost.month
        targetDate == targetYear * 12 + targetMonth
    IN IF cost.is_recurring
       THEN cost.is_active /\ costDate <= targetDate
       ELSE cost.year = targetYear /\ cost.month = targetMonth

\* for (const cost of costs) { ... total += convertCurrency(...) }
RECURSIVE MonthTotalFrom(_, _, _, _, _, _, _)
MonthTotalFrom(list, i, total, targetYear, targetMonth, dc, table) ==
    IF i > Len(list) THEN total
    ELSE MonthTotalFrom(list, i + 1,
             IF CostApplies(list[i], targetYear, targetMonth)
             THEN JsAdd(total, ConvertCurrency(list[i].amount, list[i].currency, dc, table))
             ELSE total,
             targetYear, targetMonth, dc, table)

GetMonthTotal(list, targetYear, targetMonth, dc, table) ==
    MonthTotalFrom(list, 1, Num(0), targetYear, targetMonth, dc, table)

\* getMonthTotal(targetYear, targetMonth)
getMonthTotal ==
    /\ costTotal = NoResult
    /\ costTotal' = GetMonthTotal(costs, costTarget[1], costTarget[2], displayCurrency, pageRates)
    /\ UNCHANGED <<uiVars, costs, costTarget, incomeVars, pageVars, storeVars, dailyVars, utilVars,
                   attendanceVars, salaryVars, currencyVars>>

(***************************************************************************)
(* Report page: incomeForPeriod                                            *)
(***************************************************************************)
MaxContracts == 2
MaxAdEntries == 2
MaxIapEntries == 2

IncomeMonths == {<<2024, 2>>, <<2024, 3>>}
SelectableMonths == {<<2024, 2>>, <<2024, 3>>, <<2024, 4>>}
Platforms == {"ios", "android"}

\* Contract rows (the fields incomeForPeriod reads)
ContractRows ==
    { [monthly_fee |-> f.amount, currency |-> f.currency, is_active |-> act] :
        f \in {[amount |-> Num(1000), currency |-> "USD"], [amount |-> Num(500), currency |-> "SEK"]},
        act \in BOOLEAN }

AdRows ==
    { [year |-> ym[1], month |-> ym[2], amount |-> Num(40), currency |-> "SEK"] :
        ym \in IncomeMonths }

IapRows ==
    { [platform |-> pl, year |-> ym[1], month |-> ym[2],
       amount |-> IF pl = "ios" THEN Num(30) ELSE Num(50),
       currency |-> IF pl = "ios" THEN "USD" ELSE "SEK"] :
        pl \in Platforms, ym \in IncomeMonths }

SeqsUpTo(S, n) == UNION { [1 .. k -> S] : k \in 0 .. n }

\* ad_revenue has UNIQUE(year, month), iap_revenue UNIQUE(platform, year, month)
AdTables ==
    { t \in SeqsUpTo(AdRows, MaxAdEntries) :
        \A i, j \in DOMAIN t :
            (t[i].year = t[j].year /\ t[i].month = t[j].month) => i = j }
IapTables ==
    { t \in SeqsUpTo(IapRows, MaxIapEntries) :
        \A i, j \in DOMAIN t :
            (/\ t[i].platform = t[j].platform
             /\ t[i].year = t[j].year /\ t[i].month = t[j].month) => i = j }

\* list.reduce((sum, x) => sum + x, 0) over a list of numbers
RECURSIVE ReduceSum(_, _, _)
ReduceSum(list, i, sum) ==
    IF i > Len(list) THEN sum ELSE ReduceSum(list, i + 1, JsAdd(sum, list[i]))

IsActive(c) == c.is_active

\* Mutant: inactive contracts are counted too
ConsultantTotal_AllContracts(list, dc, table) ==
    ReduceSum([i \in DOMAIN list |->
                  ConvertCurrency(list[i].monthly_fee, list[i].currency, dc, table)],
              1, Num(0))

\* contracts.filter(c => c.is_active).reduce(sum + converted, 0)
ConsultantTotal(list, dc, table) ==
    LET active == SelectSeq(list, IsActive)
    IN ReduceSum([i \in DOMAIN active |->
                     ConvertCurrency(active[i].monthly_fee, active[i].currency, dc, table)],
                 1, Num(0))

\* adRevenue.find(r => r.year === y && r.month === m): the first match, or undefined
FindEntry(list, y, m) ==
    LET hits == { i \in DOMAIN list : list[i].year = y /\ list[i].month = m }
    IN IF hits = {} THEN Undefined
       ELSE list[CHOOSE i \in hits : \A j \in hits : i <= j]

AdTotal(list, y, m, dc, table) ==
    LET adEntry == FindEntry(list, y, m)
    IN IF adEntry # Undefined
       THEN ConvertCurrency(adEntry.amount, adEntry.currency, dc, table)
       ELSE Num(0)

\* Mutant: the in-app entries of the whole year are summed
IapTotal_WholeYear(list, y, m, dc, table) ==
    LET InYear(r) == r.year = y
        iapEntries == SelectSeq(list, InYear)
    IN ReduceSum([i \in DOMAIN iapEntries |->
                     ConvertCurrency(iapEntries[i].amount, iapEntries[i].currency, dc, table)],
                 1, Num(0))

\* iapRevenue.filter(r => r.year === y && r.month === m).reduce(sum + converted, 0)
IapTotal(list, y, m, dc, table) ==
    LET InMonth(r) == r.year = y /\ r.month = m
        iapEntries == SelectSeq(list, InMonth)
    IN ReduceSum([i \in DOMAIN iapEntries |->
                     ConvertCurrency(iapEntries[i].amount, iapEntries[i].currency, dc, table)],
                 1, Num(0))

\* The value of the incomeForPeriod memo
IncomeForPeriod(cs, ads, iaps, y, m, dc, table) ==
    LET consultantTotal == ConsultantTotal(cs, dc, table)
        adTotal == AdTotal(ads, y, m, dc, table)
        iapTotal == IapTotal(iaps, y, m, dc, table)
    IN [consultant |-> consultantTotal, ads |-> adTotal, iap |-> iapTotal,
        total |-> JsAdd(JsAdd(consultantTotal, adTotal), iapTotal)]

\* The memo is computed when ReportPage renders
incomeForPeriod ==
    /\ income = NoResult
    /\ income' = IncomeForPeriod(contracts, adRevenue, iapRevenue, selected[1], selected[2],
                                 displayCurrency, pageRates)
    /\ UNCHANGED <<uiVars, costVars, contracts, adRevenue, iapRevenue, selected, pageVars,
                   storeVars, dailyVars, utilVars,
                   attendanceVars, salaryVars, currencyVars>>

(***************************************************************************)
(* Report page, "All Employees" view: salaryTotals, the KPI grid, the      *)
(* fetch of the month's reports and the chart                              *)
(***************************************************************************)
MaxInFlight == 2

Unmounted == [kind |-> "unmounted"]
Loading == [kind |-> "loading"]
EmptyMap == <<>>

\* The employees prop (the fields the page reads)
EmployeeRows ==
    << [id |-> 1, salary |-> Num(3000), currency |-> "USD"],
       [id |-> 2, salary |-> Num(4000), currency |-> "SEK"] >>

\* a >= b
JsGE(x, y) ==
    LET a == ToNumber(x)
        b == ToNumber(y)
    IN IF a.kind = "nan" \/ b.kind = "nan" THEN FALSE
       ELSE IF a.kind = "fin" /\ b.kind = "fin" THEN a.n * b.d >= b.n * a.d
       ELSE IF a.kind = "inf" THEN a.sign = 1 \/ (b.kind = "inf" /\ b.sign = -1)
       ELSE b.sign = -1

\* map.get(key)
MapGet(map, key) == IF key \in DOMAIN map THEN map[key] ELSE Undefined

\* Mutant: an employee without a report contributes nothing
EmployeeDeduction_MissingIsZero(convertedSalary, r) ==
    IF r # Undefined
    THEN SalaryDeduction(convertedSalary, r)
    ELSE [baseSalary |-> convertedSalary, adjustedSalary |-> Num(0),
          deductionAmount |-> Num(0), sickDays |-> 0, workdays |-> 0]

\* report ? calculateSalaryDeduction(convertedSalary, report) : { ...full salary }
EmployeeDeduction(convertedSalary, r) ==
    IF r # Undefined
    THEN SalaryDeduction(convertedSalary, r)
    ELSE [baseSalary |-> convertedSalary, adjustedSalary |-> convertedSalary,
          deductionAmount |-> Num(0), sickDays |-> 0, workdays |-> 0]

\* validEmployees.forEach(...) of salaryTotals
RECURSIVE SalaryTotalsFrom(_, _, _, _, _, _)
SalaryTotalsFrom(emps, i, acc, reports, dc, table) ==
    IF i > Len(emps) THEN acc
    ELSE LET convertedSalary == ConvertCurrency(emps[i].salary, emps[i].currency, dc, table)
             d == EmployeeDeduction(convertedSalary, MapGet(reports, emps[i].id))
         IN SalaryTotalsFrom(emps, i + 1,
                [totalBaseSalary |-> JsAdd(acc.totalBaseSalary, convertedSalary),
                 totalAdjustedSalary |-> JsAdd(acc.totalAdjustedSalary, d.adjustedSalary),
                 totalSickDays |-> acc.totalSickDays + d.sickDays],
                reports, dc, table)

\* The value of the salaryTotals memo
SalaryTotals(selectedEmployee, emps, reports, dc, table) ==
    IF selectedEmployee # Null
    THEN [totalBase |-> Num(0), totalAdjusted |-> Num(0), totalSickDays |-> 0,
          totalDeduction |-> Num(0)]
    ELSE LET t == SalaryTotalsFrom(emps, 1,
                      [totalBaseSalary |-> Num(0), totalAdjustedSalary |-> Num(0),
                       totalSickDays |-> 0],
                      reports, dc, table)
         IN [totalBase |-> t.totalBaseSalary, totalAdjusted |-> t.totalAdjustedSalary,
             totalSickDays |-> t.totalSickDays,
             totalDeduction |-> JsSub(t.totalBaseSalary, t.totalAdjustedSalary)]

\* ReportKpiGrid({ totalIncome, totalExpenses, totalCosts })
ReportKpiGrid(totalIncome, totalExpenses, totalCosts) ==
    LET allExpenses == JsAdd(totalExpenses, totalCosts)
        netAmount == JsSub(totalIncome, allExpenses)
        isProfit == JsGE(netAmount, Num(0))
    IN [kind |-> "kpi", totalIncome |-> totalIncome, allExpenses |-> allExpenses,
        netAmount |-> netAmount, isProfit |-> isProfit,
        label |-> IF isProfit THEN "Net Profit" ELSE "Net Loss"]

\* What ReportPage computes and displays in the "All Employees" view; the
\* element <ReportKpiGrid .../> is given no totalCosts prop.
ReportPageView(sel, reports, isLoading, cs, ads, iaps, dc, table) ==
    LET inc == IncomeForPeriod(cs, ads, iaps, sel[1], sel[2], dc, table)
        sal == SalaryTotals(Null, EmployeeRows, reports, dc, table)
    IN [income |-> inc, salary |-> sal,
        kpi |-> IF isLoading THEN Loading
                ELSE ReportKpiGrid(inc.total, sal.totalAdjusted, Undefined)]

\* getEmployeeReportsForMonth(year, month): the cached map or a new empty one
GetEmployeeReportsForMonth(cache, year, month) ==
    IF <<year, month>> \in DOMAIN cache THEN cache[<<year, month>>] ELSE EmptyMap

\* while (targetMonth <= 0) { targetMonth += 12; targetYear-- }
RECURSIVE TargetOf(_, _)
TargetOf(targetYear, targetMonth) ==
    IF targetMonth <= 0 THEN TargetOf(targetYear - 1, targetMonth + 12)
    ELSE <<targetYear, targetMonth>>

\* employees.forEach(emp => { expenses += deduction.adjustedSalary })
RECURSIVE ChartExpensesFrom(_, _, _, _, _, _)
ChartExpensesFrom(emps, i, expenses, reports, dc, table) ==
    IF i > Len(emps) THEN expenses
    ELSE LET convertedSalary == ConvertCurrency(emps[i].salary, emps[i].currency, dc, table)
             d == EmployeeDeduction(convertedSalary, MapGet(reports, emps[i].id))
         IN ChartExpensesFrom(emps, i + 1, JsAdd(expenses, d.adjustedSalary),
                              reports, dc, table)

\* One pass of the loop of monthlyData, for (let i = 5; i >= 0; i--)
ChartPoint(i, cs, ads, iaps, emps, cache, dc, table, currentYear, currentMonth) ==
    LET target == TargetOf(currentYear, currentMonth - i)
        inc == IncomeForPeriod(cs, ads, iaps, target[1], target[2], dc, table)
        reports == GetEmployeeReportsForMonth(cache, target[1], target[2])
    IN [year |-> target[1], monthNum |-> target[2], income |-> inc.total,
        expenses |-> ChartExpensesFrom(emps, 1, Num(0), reports, dc, table)]

\* Mutant: the loop runs from i = 0 up to 5, the selected month comes first
MonthlyData_SelectedFirst(cs, ads, iaps, emps, cache, dc, table, currentYear, currentMonth) ==
    [k \in 1 .. 6 |->
        ChartPoint(k - 1, cs, ads, iaps, emps, cache, dc, table, currentYear, currentMonth)]

\* The value of the monthlyData memo of ReportChart
MonthlyData(cs, ads, iaps, emps, cache, dc, table, currentYear, currentMonth) ==
    [k \in 1 .. 6 |->
        ChartPoint(6 - k, cs, ads, iaps, emps, cache, dc, table, currentYear, currentMonth)]

\* ReportChart rendered on its own: the memo is computed from the props
ReportChartMount ==
    /\ monthlyData = Unmounted
    /\ monthlyData' = MonthlyData(contracts, adRevenue, iapRevenue, EmployeeRows,
                                  chartReportsCache, displayCurrency, pageRates,
                                  selected[1], selected[2])
    /\ UNCHANGED <<allEmployeeReports, loadingAll, chartReportsCache, fetches, shown>>
    /\ UNCHANGED <<uiVars, costVars, incomeVars, storeVars, dailyVars, utilVars,
                   attendanceVars, salaryVars, currencyVars>>

PrevMonth(ym) == IF ym[2] = 1 THEN <<ym[1] - 1, 12>> ELSE <<ym[1], ym[2] - 1>>
NextMonth(ym) == IF ym[2] = 12 THEN <<ym[1] + 1, 1>> ELSE <<ym[1], ym[2] + 1>>

\* new Date().getFullYear(), new Date().getMonth() + 1
MonthOfDay(n) == LET c == CHOOSE c \in Calendar : c.day = n IN <<c.y, c.m>>

\* The render that follows a change of state
Render ==
    shown' = ReportPageView(selected', allEmployeeReports', loadingAll',
                            contracts, adRevenue, iapRevenue, displayCurrency, pageRates)

\* The month is changed; the effect calls fetchAllReports, which sets
\* loadingAll and awaits the reports. The chart is not rendered while loading.
SelectMonth(ym) ==
    /\ ym # selected
    /\ ym \in SelectableMonths
    /\ Len(fetches) < MaxInFlight
    /\ selected' = ym
    /\ fetches' = Append(fetches, [year |-> ym[1], month |-> ym[2]])
    /\ loadingAll' = TRUE
    /\ monthlyData' = Unmounted
    /\ UNCHANGED <<allEmployeeReports, chartReportsCache>>
    /\ Render
    /\ UNCHANGED <<uiVars, costVars, contracts, adRevenue, iapRevenue, income, storeVars,
                   dailyVars, utilVars, attendanceVars, salaryVars, currencyVars>>

handlePrevMonth == SelectMonth(PrevMonth(selected))
handleNextMonth == SelectMonth(NextMonth(selected))
handleReset == SelectMonth(MonthOfDay(today))

\* The reports of the i-th pending fetchAllReports arrive (getSmartMonthlyReport
\* returns null for the employees in failed); the rest of the function runs.
CompleteFetch(i, failed) ==
    /\ i \in DOMAIN fetches
    /\ LET f == fetches[i]
           got == { k \in DOMAIN EmployeeRows : EmployeeRows[k].id \notin failed }
           reports == [id \in { EmployeeRows[k].id : k \in got } |->
                          SmartMonthlyReport(attendance, today, id, f.year, f.month)]
           cacheKey == <<f.year, f.month>>
       IN /\ allEmployeeReports' = reports
          /\ chartReportsCache' =
                [k \in DOMAIN chartReportsCache \cup {cacheKey} |->
                    IF k = cacheKey THEN reports ELSE chartReportsCache[k]]
    /\ loadingAll' = FALSE
    /\ fetches' = [k \in 1 .. Len(fetches) - 1 |-> IF k < i THEN fetches[k] ELSE fetches[k + 1]]
    /\ monthlyData' =
          IF loadingAll
          THEN MonthlyData(contracts, adRevenue, iapRevenue, EmployeeRows, chartReportsCache',
                           displayCurrency, pageRates, selected[1], selected[2])
          ELSE monthlyData
    /\ UNCHANGED selected
    /\ Render
    /\ UNCHANGED <<uiVars, costVars, contracts, adRevenue, iapRevenue, income, storeVars,
                   dailyVars, utilVars, attendanceVars, salaryVars, currencyVars>>

(***************************************************************************)
(* Attendance table with its id column: the four mutating calls            *)
(***************************************************************************)
MaxIds == 3
MaxEntries == 2

StoreDates == {DateStr(2024, 2, 29), DateStr(2024, 3, 1)}
StoreKeys == Employees \X StoreDates

\* The entries argument of bulkSetAttendance: status is null to clear the day
BulkEntries ==
    SeqsUpTo([employee_id : Employees, status : {"worked", "null"}], MaxEntries)

\* Mutant: a plain insert, the conflict on (employee_id, date) is not handled
StoreSet_PlainInsert(st, e, d, s) ==
    [rows |-> st.rows \cup {[id |-> st.nextId, employee_id |-> e, date |-> d, status |-> s]},
     nextId |-> st.nextId + 1,
     last |-> [st.last EXCEPT ![<<e, d>>] = s]]

\* setAttendance: upsert on the conflict target (employee_id, date); a row
\* that is updated keeps its id, a row that is inserted gets the next id
StoreSet(st, e, d, s) ==
    LET existing == { r \in st.rows : r.employee_id = e /\ r.date = d }
    IN IF existing # {}
       THEN [st EXCEPT !.rows = { IF r \in existing THEN [r EXCEPT !.status = s] ELSE r :
                                     r \in st.rows },
                       !.last[<<e, d>>] = s]
       ELSE [rows |-> st.rows \cup
                        {[id |-> st.nextId, employee_id |-> e, date |-> d, status |-> s]},
             nextId |-> st.nextId + 1,
             last |-> [st.last EXCEPT ![<<e, d>>] = s]]

\* deleteAttendanceByEmployeeAndDate: false and no change when no row exists
StoreDeleteKey(st, e, d) ==
    LET existing == { r \in st.rows : r.employee_id = e /\ r.date = d }
    IN IF existing = {} THEN st
       ELSE [st EXCEPT !.rows = st.rows \ existing, !.last[<<e, d>>] = "none"]

\* deleteAttendance(id): false and no change when no row has the id
StoreDeleteId(st, id) ==
    LET existing == { r \in st.rows : r.id = id }
    IN IF existing = {} THEN st
       ELSE [rows |-> st.rows \ existing,
             nextId |-> st.nextId,
             last |-> [k \in DOMAIN st.last |->
                          IF \E r \in existing : k = <<r.employee_id, r.date>>
                          THEN "none" ELSE st.last[k]]]

\* One turn of the loop of bulkSetAttendance. For a null status
\* deleteAttendanceByEmployeeAndDate first selects the row and drops the error
\* of that select: when the select fails (unread), existing is null and the
\* function returns false without deleting and without throwing
BulkStep(st, date, entry, unread) ==
    IF entry.status = "null"
    THEN (IF unread THEN st ELSE StoreDeleteKey(st, entry.employee_id, date))
    ELSE StoreSet(st, entry.employee_id, date, entry.status)

\* The loop of bulkSetAttendance over entries[i .. stop - 1]; missed holds the
\* numbers of the entries whose select failed
RECURSIVE BulkFrom(_, _, _, _, _, _)
BulkFrom(st, date, entries, i, stop, missed) ==
    IF i >= stop THEN st
    ELSE BulkFrom(BulkStep(st, date, entries[i], i \in missed),
                  date, entries, i + 1, stop, missed)

\* Does the call made for the entry issue a write (an upsert or a delete)?
WritesAt(st, date, entry) ==
    \/ entry.status # "null"
    \/ \E r \in st.rows : r.employee_id = entry.employee_id /\ r.date = date

\* Mutant: a failed write undoes the entries applied before it
BulkResult_Rollback(st, date, entries, stop, missed) ==
    IF stop <= Len(entries) THEN st ELSE BulkFrom(st, date, entries, 1, stop, missed)

\* The table bulkSetAttendance leaves when the write of entry number stop
\* throws (stop = Len(entries) + 1: no write throws)
BulkResult(st, date, entries, stop, missed) ==
    BulkFrom(st, date, entries, 1, stop, missed)

Store == [rows |-> attendance, nextId |-> nextId, last |-> lastSet]

StoreBecomes(st) ==
    /\ st.nextId <= MaxIds + 1
    /\ attendance' = st.rows
    /\ nextId' = st.nextId
    /\ lastSet' = st.last
    /\ UNCHANGED <<today, smartReport, salaryVars, currencyVars,
                   uiVars, costVars, incomeVars, pageVars, dailyVars,
                   weekdayVars, vatVars, syncVars>>

\* IPC 'attendance:set'
attendanceSet(e, d, s) == StoreBecomes(StoreSet(Store, e, d, s)) /\ UNCHANGED lastBulk

\* IPC 'attendance:delete'
attendanceDelete(id) ==
    /\ \E r \in attendance : r.id = id
    /\ StoreBecomes(StoreDeleteId(Store, id))
    /\ UNCHANGED lastBulk

\* IPC 'attendance:deleteByEmployeeAndDate'
attendanceDeleteByEmployeeAndDate(e, d) ==
    /\ \E r \in attendance : r.employee_id = e /\ r.date = d
    /\ StoreBecomes(StoreDeleteKey(Store, e, d))
    /\ UNCHANGED lastBulk

\* bulkSetAttendance(d, entries): the write of entry number stop throws and
\* ends the loop (stop = Len(entries) + 1 when no write throws); the selects
\* of the entries in missed, all before stop and with a null status, fail
BulkSetBecomes(d, entries, stop, missed) ==
    /\ stop \in 1 .. Len(entries) + 1
    /\ missed \subseteq { i \in 1 .. stop - 1 : entries[i].status = "null" }
    /\ LET left == BulkResult(Store, d, entries, stop, missed)
       IN  /\ stop <= Len(entries) => WritesAt(left, d, entries[stop])
           /\ StoreBecomes(left)

\* IPC 'attendance:bulkSet'
attendanceBulkSet(d, entries, stop, missed) ==
    /\ BulkSetBecomes(d, entries, stop, missed)
    /\ UNCHANGED lastBulk

\* bulkSetAttendance called once, the call and the rows before it recorded
bulkSetAttendance(d, entries, stop, missed) ==
    /\ lastBulk = NoResult
    /\ BulkSetBecomes(d, entries, stop, missed)
    /\ lastBulk' = [date |-> d, entries |-> entries, stop |-> stop, missed |-> missed,
                    before |-> attendance, rejected |-> stop <= Len(entries)]

\* Tables the calls above reach, with the id the next inserted row gets
BulkTables ==
    { [rows |-> {}, nextId |-> 1],
      [rows |-> {[id |-> 1, employee_id |-> 1, date |-> DateStr(2024, 2, 29), status |-> "sick"]},
       nextId |-> 2],
      [rows |-> {[id |-> 1, employee_id |-> 2, date |-> DateStr(2024, 3, 1), status |-> "vacation"]},
       nextId |-> 2],
      [rows |-> {[id |-> 1, employee_id |-> 1, date |-> DateStr(2024, 2, 29), status |-> "sick"],
                 [id |-> 2, employee_id |-> 2, date |-> DateStr(2024, 3, 1), status |-> "vacation"]},
       nextId |-> 3] }

(***************************************************************************)
(* Employee detail: the monthly report of the selected employee is fetched *)
(* and calculateSalaryDeduction is applied to it                           *)
(***************************************************************************)
\* Clock values around the end of March 2024
MarchClock ==
    { NewDate(2024, 2, 28).day, NewDate(2024, 2, 31).day,
      NewDate(2024, 3, 1).day, NewDate(2025, 11, 31).day }

\* Rows the attendance table may hold (distinct keys)
MarchRows ==
    { [employee_id |-> 1, date |-> DateStr(2024, 2, 28), status |-> "sick"],
      [employee_id |-> 1, date |-> DateStr(2024, 3, 4), status |-> "sick"],
      [employee_id |-> 1, date |-> DateStr(2024, 3, 9), status |-> "sick"],
      [employee_id |-> 1, date |-> DateStr(2024, 3, 6), status |-> "vacation"],
      [employee_id |-> 1, date |-> DateStr(2024, 3, 7), status |-> "worked"],
      [employee_id |-> 1, date |-> DateStr(2024, 3, 29), status |-> "sick"],
      [employee_id |-> 2, date |-> DateStr(2024, 3, 4), status |-> "sick"] }

DetailMonths == {<<2024, 2>>, <<2024, 3>>, <<2024, 4>>}

\* setMonthlyReport(monthly): the fetched report becomes the page's report
setMonthlyReport ==
    /\ smartReport # NoReport
    /\ report = NoResult
    /\ report' = smartReport.result
    /\ UNCHANGED <<baseSalary, deduction, attendanceVars, currencyVars, viewVars>>

(***************************************************************************)
(* Attendance calendar, daily view: getDailySummary                        *)
(***************************************************************************)
MaxDailyEntries == 3

\* Mon 2024-02-26 .. Sun 2024-03-03
DailyDates == NewDate(2024, 1, 26).day .. NewDate(2024, 2, 3).day

\* entry.status: a status, or null when the employee has no record for the date
NoStatus == "null"
DailyStatuses == Statuses \cup {NoStatus}

\* One entry per employee, as getAllEmployeesForDate returns them
DailyTables ==
    UNION { [1 .. n -> [status : DailyStatuses]] : n \in 0 .. MaxDailyEntries }

\* Mutant: only Sunday is not a weekday
isWeekday_SaturdayCounted(date) == GetDay(date) # 0

\* isWeekday(date)
isWeekday(date) ==
    LET day == GetDay(date)
    IN day # 0 /\ day # 6

\* dailyEntries.forEach(entry => { if ... else if ... else if ... })
RECURSIVE DailySummaryFrom(_, _, _, _)
DailySummaryFrom(entries, i, acc, isWeekdayDate) ==
    IF i > Len(entries) THEN acc
    ELSE LET status == entries[i].status
         IN DailySummaryFrom(entries, i + 1,
                IF status = "sick" THEN [acc EXCEPT !.sick = @ + 1]
                ELSE IF status = "vacation" THEN [acc EXCEPT !.vacation = @ + 1]
                ELSE IF status = "worked" \/ (isWeekdayDate /\ status = NoStatus)
                     THEN [acc EXCEPT !.worked = @ + 1]
                ELSE acc,
                isWeekdayDate)

DailySummary(date, entries) ==
    DailySummaryFrom(entries, 1, [worked |-> 0, sick |-> 0, vacation |-> 0], isWeekday(date))

\* getDailySummary()
getDailySummary ==
    /\ dailySummary = NoResult
    /\ dailySummary' = DailySummary(currentDate, dailyEntries)
    /\ UNCHANGED <<currentDate, dailyEntries, attendanceVars, salaryVars, currencyVars,
                   uiVars, costVars, incomeVars, pageVars, storeVars, utilVars>>

(***************************************************************************)
(* countWeekdays called on its own, with dates that may be invalid         *)
(***************************************************************************)
\* Two weeks from Monday 2024-01-01, and the Invalid Date
WeekdayDates == { [day |-> n, ms |-> 0] : n \in 0 .. 13 } \cup {InvalidDate}

\* countWeekdays(startDate, endDate): the function has no throw statement and
\* calls nothing that throws on an Invalid Date, so every call returns
countWeekdaysCall ==
    /\ weekdayResult = NoResult
    /\ weekdayResult' =
          [kind |-> "returned",
           value |-> countWeekdays(weekdayArgs.startDate, weekdayArgs.endDate)]
    /\ UNCHANGED <<weekdayArgs, vatVars, syncVars, lastBulk, attendanceVars, salaryVars, currencyVars,
                   uiVars, costVars, incomeVars, pageVars, storeVars, dailyVars>>

(***************************************************************************)
(* getVatQuarterInfo of the income summary, called on its own              *)
(***************************************************************************)
\* Mutant: the due date itself already belongs to the next window
getVatQuarterInfo_DueDayExcluded(date) ==
    LET month == GetMonth(date) + 1
        day == GetDate(date)
        year == GetFullYear(date)
    IN  IF month < 2 \/ (month = 2 /\ day < 12)
        THEN [quarterLabel |-> "Q4", months |-> "October - December",
              quarterYear |-> year - 1, dueDate |-> NewDate(year, 1, 12)]
        ELSE IF month < 5 \/ (month = 5 /\ day < 12)
        THEN [quarterLabel |-> "Q1", months |-> "January - March",
              quarterYear |-> year, dueDate |-> NewDate(year, 4, 12)]
        ELSE IF month < 8 \/ (month = 8 /\ day < 12)
        THEN [quarterLabel |-> "Q2", months |-> "April - June",
              quarterYear |-> year, dueDate |-> NewDate(year, 7, 12)]
        ELSE IF month < 11 \/ (month = 11 /\ day < 12)
        THEN [quarterLabel |-> "Q3", months |-> "July - September",
              quarterYear |-> year, dueDate |-> NewDate(year, 10, 12)]
        ELSE [quarterLabel |-> "Q4", months |-> "October - December",
              quarterYear |-> year, dueDate |-> NewDate(year + 1, 1, 12)]

\* getVatQuarterInfo(date)
getVatQuarterInfo(date) ==
    LET month == GetMonth(date) + 1
        day == GetDate(date)
        year == GetFullYear(date)
    IN  IF month < 2 \/ (month = 2 /\ day <= 12)
        THEN [quarterLabel |-> "Q4", months |-> "October - December",
              quarterYear |-> year - 1, dueDate |-> NewDate(year, 1, 12)]
        ELSE IF month < 5 \/ (month = 5 /\ day <= 12)
        THEN [quarterLabel |-> "Q1", months |-> "January - March",
              quarterYear |-> year, dueDate |-> NewDate(year, 4, 12)]
        ELSE IF month < 8 \/ (month = 8 /\ day <= 12)
        THEN [quarterLabel |-> "Q2", months |-> "April - June",
              quarterYear |-> year, dueDate |-> NewDate(year, 7, 12)]
        ELSE IF month < 11 \/ (month = 11 /\ day <= 12)
        THEN [quarterLabel |-> "Q3", months |-> "July - September",
              quarterYear |-> year, dueDate |-> NewDate(year, 10, 12)]
        ELSE [quarterLabel |-> "Q4", months |-> "October - December",
              quarterYear |-> year, dueDate |-> NewDate(year + 1, 1, 12)]

getVatQuarterInfoCall ==
    /\ vatInfo = NoResult
    /\ vatInfo' = getVatQuarterInfo(vatDate)
    /\ UNCHANGED <<vatDate, weekdayVars, syncVars, lastBulk, attendanceVars, salaryVars, currencyVars,
                   uiVars, costVars, incomeVars, pageVars, storeVars, dailyVars>>

(***************************************************************************)
(* Refreshing the currency rates: the renderer's refreshRates, the main    *)
(* process's currency:fetchLatest handler and updateCurrencyRates          *)
(***************************************************************************)
RateKeys == Currencies \X Currencies

\* The nine rows the handler computes from the response's data.rates
FreshRates(data) ==
    << [from_curr |-> "USD", to_curr |-> "IDR", rate |-> data.IDR],
       [from_curr |-> "USD", to_curr |-> "SEK", rate |-> data.SEK],
       [from_curr |-> "USD", to_curr |-> "USD", rate |-> Num(1)],
       [from_curr |-> "IDR", to_curr |-> "USD", rate |-> JsDiv(Num(1), data.IDR)],
       [from_curr |-> "IDR", to_curr |-> "SEK", rate |-> JsDiv(data.SEK, data.IDR)],
       [from_curr |-> "IDR", to_curr |-> "IDR", rate |-> Num(1)],
       [from_curr |-> "SEK", to_curr |-> "USD", rate |-> JsDiv(Num(1), data.SEK)],
       [from_curr |-> "SEK", to_curr |-> "IDR", rate |-> JsDiv(data.IDR, data.SEK)],
       [from_curr |-> "SEK", to_curr |-> "SEK", rate |-> Num(1)] >>

\* The table holding exactly the rows of a list with distinct keys
TableOf(rows) ==
    [k \in RateKeys |->
        rows[CHOOSE i \in DOMAIN rows : <<rows[i].from_curr, rows[i].to_curr>> = k].rate]

\* What the exchange-rate service may answer
ApiRates == { [IDR |-> Num(16000), SEK |-> Num(11)], [IDR |-> Num(15000), SEK |-> Num(10)] }
\* The table before the refresh
StoredRates == TableOf(FreshRates([IDR |-> Num(15500), SEK |-> Num(12)]))

\* refreshRates() up to its await of currency.fetchLatest()
refreshRates ==
    /\ refreshPc = "idle"
    /\ refreshPc' = "fetchLatest"
    /\ UNCHANGED <<currencyRates, updatePending, fetchLatestResult, hookRates>>
    /\ UNCHANGED <<weekdayVars, vatVars, lastBulk, attendanceVars, salaryVars, currencyVars,
                   uiVars, costVars, incomeVars, pageVars, storeVars, dailyVars>>

\* The handler of currency:fetchLatest once the service answered with data:
\* it computes the rows, calls updateCurrencyRates(rates) without awaiting the
\* promise, and returns success; the loop of upserts has only started
currencyFetchLatest(data) ==
    /\ refreshPc = "fetchLatest"
    /\ fetchLatestResult = NoResult
    /\ updatePending' = FreshRates(data)
    /\ fetchLatestResult' = [kind |-> "result", success |-> TRUE, rates |-> FreshRates(data)]
    /\ UNCHANGED <<currencyRates, refreshPc, hookRates>>
    /\ UNCHANGED <<weekdayVars, vatVars, lastBulk, attendanceVars, salaryVars, currencyVars,
                   uiVars, costVars, incomeVars, pageVars, storeVars, dailyVars>>

\* The handler's catch branch: the request or the reading of its body threw
currencyFetchLatestFails ==
    /\ refreshPc = "fetchLatest"
    /\ fetchLatestResult = NoResult
    /\ fetchLatestResult' = [kind |-> "result", success |-> FALSE, rates |-> <<>>]
    /\ UNCHANGED <<currencyRates, updatePending, refreshPc, hookRates>>
    /\ UNCHANGED <<weekdayVars, vatVars, lastBulk, attendanceVars, salaryVars, currencyVars,
                   uiVars, costVars, incomeVars, pageVars, storeVars, dailyVars>>

\* One turn of the loop of updateCurrencyRates: the awaited upsert of the next
\* row resolves; with an error the function throws and the loop ends
upsertRate(failed) ==
    /\ updatePending # <<>>
    /\ IF failed
       THEN /\ updatePending' = <<>>
            /\ UNCHANGED currencyRates
       ELSE LET rate == Head(updatePending)
            IN  /\ currencyRates' =
                      [currencyRates EXCEPT ![<<rate.from_curr, rate.to_curr>>] = rate.rate]
                /\ updatePending' = Tail(updatePending)
    /\ UNCHANGED <<fetchLatestResult, refreshPc, hookRates>>
    /\ UNCHANGED <<weekdayVars, vatVars, lastBulk, attendanceVars, salaryVars, currencyVars,
                   uiVars, costVars, incomeVars, pageVars, storeVars, dailyVars>>

\* refreshRates() resumes with the handler's result
refreshRatesResumes ==
    /\ refreshPc = "fetchLatest"
    /\ fetchLatestResult # NoResult
    /\ refreshPc' = IF fetchLatestResult.success THEN "fetchRates" ELSE "failed"
    /\ UNCHANGED <<currencyRates, updatePending, fetchLatestResult, hookRates>>
    /\ UNCHANGED <<weekdayVars, vatVars, lastBulk, attendanceVars, salaryVars, currencyVars,
                   uiVars, costVars, incomeVars, pageVars, storeVars, dailyVars>>

\* fetchRates(): getRates() reads the table and setRates stores what it read
fetchRates ==
    /\ refreshPc = "fetchRates"
    /\ hookRates' = currencyRates
    /\ refreshPc' = "done"
    /\ UNCHANGED <<currencyRates, updatePending, fetchLatestResult>>
    /\ UNCHANGED <<weekdayVars, vatVars, lastBulk, attendanceVars, salaryVars, currencyVars,
                   uiVars, costVars, incomeVars, pageVars, storeVars, dailyVars>>

IdleSalary == baseSalary = NoResult /\ report = NoResult /\ deduction = NoResult
IdleCurrency ==
    amount = NoResult /\ from = "USD" /\ to = "USD" /\ rates = {} /\ converted = NoResult
IdleAttendance == attendance = {} /\ today = FirstDay /\ smartReport = NoReport
IdleCosts == costs = <<>> /\ costTarget = <<2024, 1>> /\ costTotal = NoResult
IdleIncome ==
    /\ contracts = <<>> /\ adRevenue = <<>> /\ iapRevenue = <<>>
    /\ selected = <<2024, 3>> /\ income = NoResult
IdleUi == displayCurrency = "USD" /\ pageRates = {}
IdlePage ==
    /\ allEmployeeReports = EmptyMap /\ loadingAll = FALSE /\ chartReportsCache = EmptyMap
    /\ fetches = <<>> /\ monthlyData = Unmounted /\ shown = NoResult
IdleStore == nextId = 1 /\ lastSet = [k \in StoreKeys |-> "none"]
IdleDaily ==
    currentDate = [day |-> FirstDay, ms |-> 0] /\ dailyEntries = <<>> /\ dailySummary = NoResult
IdleWeekdays ==
    /\ weekdayArgs = [startDate |-> InvalidDate, endDate |-> InvalidDate]
    /\ weekdayResult = NoResult
IdleVat == vatDate = [day |-> FirstDay, ms |-> 0] /\ vatInfo = NoResult
IdleSync ==
    /\ currencyRates = EmptyMap /\ updatePending = <<>> /\ fetchLatestResult = NoResult
    /\ refreshPc = "idle" /\ hookRates = NoResult
IdleUtil == IdleWeekdays /\ IdleVat /\ IdleSync /\ lastBulk = NoResult
IdleView ==
    IdleUi /\ IdleCosts /\ IdleIncome /\ IdlePage /\ IdleStore /\ IdleDaily /\ IdleUtil

Init == attendance = {} /\ today = FirstDay /\ smartReport = NoReport
        /\ IdleSalary /\ IdleCurrency /\ IdleView

Next ==
    \/ \E e \in Employees, d \in AttendanceDates, s \in Statuses : setAttendance(e, d, s)
    \/ \E e \in Employees, d \in AttendanceDates : deleteAttendanceByEmployeeAndDate(e, d)
    \/ Tick
    \/ \E e \in Employees, y \in Years, m \in ReportMonths : getSmartMonthlyAttendanceReport(e, y, m)
    \/ \E e \in Employees, y \in Years : getSmartYearlyAttendanceReport(e, y)
    \/ ReturnReport

Spec == Init /\ [][Next]_vars

InitSalary ==
    /\ baseSalary \in BaseSalaries
    /\ report \in Reports
    /\ deduction = NoResult
    /\ IdleAttendance /\ IdleCurrency /\ IdleView

NextSalary == calculateSalaryDeduction

SpecSalary == InitSalary /\ [][NextSalary]_vars

InitCurrency ==
    /\ amount \in Amounts
    /\ from \in Currencies
    /\ to \in Currencies
    /\ rates \in RateTables
    /\ converted = NoResult
    /\ IdleAttendance /\ IdleSalary /\ IdleView

NextCurrency == convertCurrency

SpecCurrency == InitCurrency /\ [][NextCurrency]_vars

InitCosts ==
    /\ displayCurrency \in DisplayCurrencies
    /\ pageRates \in {{}, UsdSekRates}
    /\ costs \in UNION { [1 .. n -> CostRows] : n \in 0 .. MaxCosts }
    /\ costTarget \in CostTargets
    /\ costTotal = NoResult
    /\ IdleAttendance /\ IdleSalary /\ IdleCurrency /\ IdleIncome /\ IdlePage /\ IdleStore /\ IdleDaily
    /\ IdleUtil

NextCosts == getMonthTotal

SpecCosts == InitCosts /\ [][NextCosts]_vars

InitIncome ==
    /\ displayCurrency \in DisplayCurrencies
    /\ pageRates \in {{}, UsdSekRates}
    /\ contracts \in SeqsUpTo(ContractRows, MaxContracts)
    /\ adRevenue \in AdTables
    /\ iapRevenue \in IapTables
    /\ selected \in SelectableMonths
    /\ income = NoResult
    /\ IdleAttendance /\ IdleSalary /\ IdleCurrency /\ IdleCosts /\ IdlePage /\ IdleStore /\ IdleDaily
    /\ IdleUtil

NextIncome == incomeForPeriod

SpecIncome == InitIncome /\ [][NextIncome]_vars

\* The employees whose getSmartMonthlyReport call may fail and return null
FailedCalls == {{}, {2}}

\* Attendance tables the report page is opened on
PageAttendance ==
    { {},
      { [employee_id |-> 1, date |-> DateStr(2024, 2, 29), status |-> "sick"],
        [employee_id |-> 1, date |-> DateStr(2024, 3, 1), status |-> "sick"],
        [employee_id |-> 2, date |-> DateStr(2024, 3, 1), status |-> "vacation"] } }

\* The page has mounted in the "All Employees" view: the month of the clock is
\* selected and the effect has called fetchAllReports for it.
InitPage ==
    /\ attendance \in PageAttendance
    /\ today = FirstDay + 1
    /\ smartReport = NoReport
    /\ displayCurrency \in DisplayCurrencies
    /\ pageRates = UsdSekRates
    /\ contracts = <<[monthly_fee |-> Num(1000), currency |-> "USD", is_active |-> TRUE]>>
    /\ adRevenue \in {<<>>, <<[year |-> 2024, month |-> 3, amount |-> Num(40), currency |-> "SEK"]>>}
    /\ iapRevenue = <<>>
    /\ selected = MonthOfDay(today)
    /\ income = NoResult
    /\ allEmployeeReports = EmptyMap
    /\ loadingAll = TRUE
    /\ chartReportsCache = EmptyMap
    /\ fetches = <<[year |-> selected[1], month |-> selected[2]]>>
    /\ monthlyData = Unmounted
    /\ shown = ReportPageView(selected, allEmployeeReports, loadingAll,
                              contracts, adRevenue, iapRevenue, displayCurrency, pageRates)
    /\ IdleSalary /\ IdleCurrency /\ IdleCosts /\ IdleStore /\ IdleDaily /\ IdleUtil

NextPage ==
    \/ handlePrevMonth
    \/ handleNextMonth
    \/ handleReset
    \/ \E i \in 1 .. MaxInFlight, failed \in FailedCalls : CompleteFetch(i, failed)

SpecPage == InitPage /\ [][NextPage]_vars

InitDetail ==
    /\ attendance \in SUBSET MarchRows
    /\ today \in MarchClock
    /\ smartReport = NoReport
    /\ baseSalary \in {Num(3000), Num(4000)}
    /\ report = NoResult
    /\ deduction = NoResult
    /\ IdleCurrency /\ IdleView

NextDetail ==
    \/ \E e \in Employees, ym \in DetailMonths :
          getSmartMonthlyAttendanceReport(e, ym[1], ym[2])
    \/ setMonthlyReport
    \/ calculateSalaryDeduction

SpecDetail == InitDetail /\ [][NextDetail]_vars

\* Clock values in the first days of March 2024: Fri 1, Sun 3, Tue 5
MonthStartClock ==
    { NewDate(2024, 2, 1).day, NewDate(2024, 2, 3).day, NewDate(2024, 2, 5).day }

\* Rows of the first days of March 2024, the weekend included (distinct keys)
MonthStartRows ==
    { [employee_id |-> 1, date |-> DateStr(2024, 3, 1), status |-> "sick"],
      [employee_id |-> 1, date |-> DateStr(2024, 3, 2), status |-> "sick"],
      [employee_id |-> 1, date |-> DateStr(2024, 3, 3), status |-> "sick"],
      [employee_id |-> 1, date |-> DateStr(2024, 3, 4), status |-> "vacation"],
      [employee_id |-> 1, date |-> DateStr(2024, 3, 5), status |-> "worked"],
      [employee_id |-> 2, date |-> DateStr(2024, 3, 1), status |-> "sick"] }

\* A report is fetched early in the month and the deduction is computed from it
InitMonthStart ==
    /\ attendance \in SUBSET MonthStartRows
    /\ today \in MonthStartClock
    /\ smartReport = NoReport
    /\ baseSalary \in {Num(0), Num(3000)}
    /\ report = NoResult
    /\ deduction = NoResult
    /\ IdleCurrency /\ IdleView

SpecMonthStart == InitMonthStart /\ [][NextDetail]_vars

\* The table is empty and no id has been given out
InitStore ==
    /\ attendance = {} /\ today = FirstDay /\ smartReport = NoReport
    /\ nextId = 1
    /\ lastSet = [k \in StoreKeys |-> "none"]
    /\ IdleSalary /\ IdleCurrency /\ IdleUi /\ IdleCosts /\ IdleIncome /\ IdlePage /\ IdleDaily
    /\ IdleUtil

NextStore ==
    \/ \E e \in Employees, d \in StoreDates, s \in Statuses : attendanceSet(e, d, s)
    \/ \E id \in 1 .. MaxIds : attendanceDelete(id)
    \/ \E e \in Employees, d \in StoreDates : attendanceDeleteByEmployeeAndDate(e, d)
    \* A call with failed selects leaves the table that the call without those
    \* entries leaves, so the tables reached are the same with missed = {}
    \/ \E d \in StoreDates, entries \in BulkEntries :
          \E stop \in 1 .. Len(entries) + 1 :
             attendanceBulkSet(d, entries, stop, {})

SpecStore == InitStore /\ [][NextStore]_vars

\* One bulkSetAttendance call on a table that holds rows already
InitBulk ==
    /\ \E t \in BulkTables :
          /\ attendance = t.rows
          /\ nextId = t.nextId
          /\ lastSet = [k \in StoreKeys |->
                           IF \E r \in t.rows : <<r.employee_id, r.date>> = k
                           THEN (CHOOSE r \in t.rows : <<r.employee_id, r.date>> = k).status
                           ELSE "none"]
    /\ today = FirstDay /\ smartReport = NoReport
    /\ lastBulk = NoResult
    /\ IdleSalary /\ IdleCurrency /\ IdleUi /\ IdleCosts /\ IdleIncome /\ IdlePage /\ IdleDaily
    /\ IdleWeekdays /\ IdleVat /\ IdleSync

NextBulk ==
    \E d \in StoreDates, entries \in BulkEntries :
       \E stop \in 1 .. Len(entries) + 1 :
          \E missed \in SUBSET { i \in 1 .. stop - 1 : entries[i].status = "null" } :
             bulkSetAttendance(d, entries, stop, missed)

SpecBulk == InitBulk /\ [][NextBulk]_vars

InitDaily ==
    /\ currentDate \in { [day |-> n, ms |-> 0] : n \in DailyDates }
    /\ dailyEntries \in DailyTables
    /\ dailySummary = NoResult
    /\ IdleAttendance /\ IdleSalary /\ IdleCurrency
    /\ IdleUi /\ IdleCosts /\ IdleIncome /\ IdlePage /\ IdleStore /\ IdleUtil

NextDaily == getDailySummary

SpecDaily == InitDaily /\ [][NextDaily]_vars

\* Rows spread over 2024 and the first days of 2025 (distinct keys); some are
\* dated after every clock value below
YearRows ==
    { [employee_id |-> 1, date |-> DateStr(2024, 1, 15), status |-> "sick"],
      [employee_id |-> 1, date |-> DateStr(2024, 3, 6), status |-> "vacation"],
      [employee_id |-> 1, date |-> DateStr(2024, 7, 10), status |-> "vacation"],
      [employee_id |-> 1, date |-> DateStr(2024, 12, 31), status |-> "sick"],
      [employee_id |-> 2, date |-> DateStr(2024, 7, 10), status |-> "sick"],
      [employee_id |-> 1, date |-> DateStr(2025, 1, 2), status |-> "sick"] }

\* Clock values in the first months of 2024
YearClock == { NewDate(2024, 0, 20).day, NewDate(2024, 1, 10).day, NewDate(2024, 2, 1).day }

\* A fixed table and a fixed clock; yearly reports are requested
InitYear ==
    /\ attendance \in SUBSET YearRows
    /\ today \in YearClock
    /\ smartReport = NoReport
    /\ IdleSalary /\ IdleCurrency /\ IdleView

NextYear ==
    \/ \E e \in Employees, y \in Years : getSmartYearlyAttendanceReport(e, y)
    \/ ReturnReport

SpecYear == InitYear /\ [][NextYear]_vars

\* The rest of the state while a function is called on its own
IdleApp ==
    /\ IdleAttendance /\ IdleSalary /\ IdleCurrency
    /\ IdleUi /\ IdleCosts /\ IdleIncome /\ IdlePage /\ IdleStore /\ IdleDaily

InitWeekdays ==
    /\ weekdayArgs \in [startDate : WeekdayDates, endDate : WeekdayDates]
    /\ weekdayResult = NoResult
    /\ IdleApp /\ IdleVat /\ IdleSync /\ lastBulk = NoResult

NextWeekdays == countWeekdaysCall

SpecWeekdays == InitWeekdays /\ [][NextWeekdays]_vars

\* Every day of the modelled years, at midnight and at noon
VatDates == { [day |-> c.day, ms |-> h * 3600000] : c \in Calendar, h \in {0, 12} }

InitVat ==
    /\ vatDate \in VatDates
    /\ vatInfo = NoResult
    /\ IdleApp /\ IdleWeekdays /\ IdleSync /\ lastBulk = NoResult

NextVat == getVatQuarterInfoCall

SpecVat == InitVat /\ [][NextVat]_vars

\* The years the chart is asked for
ChartYears == 2023 .. 2026

\* The chart's props: every month of the years, with or without ad revenue
InitChart ==
    /\ selected \in ChartYears \X (1 .. 12)
    /\ contracts = <<[monthly_fee |-> Num(1000), currency |-> "USD", is_active |-> TRUE]>>
    /\ adRevenue \in {<<>>, <<[year |-> 2024, month |-> 3, amount |-> Num(40), currency |-> "SEK"]>>}
    /\ iapRevenue = <<>>
    /\ income = NoResult
    /\ IdlePage
    /\ IdleAttendance /\ IdleSalary /\ IdleCurrency
    /\ IdleUi /\ IdleCosts /\ IdleStore /\ IdleDaily /\ IdleUtil

NextChart == ReportChartMount

SpecChart == InitChart /\ [][NextChart]_vars

\* The table as it was stored; one refresh is made
InitRates ==
    /\ currencyRates = StoredRates
    /\ updatePending = <<>> /\ fetchLatestResult = NoResult
    /\ refreshPc = "idle" /\ hookRates = NoResult
    /\ IdleApp /\ IdleWeekdays /\ IdleVat /\ lastBulk = NoResult

NextRates ==
    \/ refreshRates
    \/ \E data \in ApiRates : currencyFetchLatest(data)
    \/ currencyFetchLatestFails
    \/ \E failed \in BOOLEAN : upsertRate(failed)
    \/ refreshRatesResumes
    \/ fetchRates

SpecRates == InitRates /\ [][NextRates]_vars

(***************************************************************************)
(* Smart report properties (specification Spec)                            *)
(***************************************************************************)
\* The day numbers of a calendar month and of a calendar year
MonthDays ==
    [y \in Years, m \in Months |-> { c.day : c \in { x \in Calendar : x.y = y /\ x.m = m } }]
YearDays == [y \in Years |-> UNION { MonthDays[y, m] : m \in Months }]
DayOf == [s \in AttendanceDates |-> DayOfStr(s)]

\* The period a returned report was requested for
ReportDays == IF smartReport.kind = "monthly"
              THEN MonthDays[smartReport.year, smartReport.month]
              ELSE YearDays[smartReport.year]
PeriodStarted == \E d \in ReportDays : d <= today
PeriodInFuture == \A d \in ReportDays : d > today

\* Day 0 is a Monday
IsMonToFri(n) == n % 7 < 5

\* The stored rows of the requesting employee with status s dated in the period
OwnRows(s) ==
    { r \in attendance : /\ r.employee_id = smartReport.employee_id
                         /\ r.status = s
                         /\ DayOf[r.date] \in ReportDays }

\* C1: every smart report has worked = max(0, workdays - sick - vacation),
\* so worked is never negative, also when sick + vacation exceeds workdays.
C1_WorkedClamped ==
    smartReport # NoReport =>
        LET r == smartReport.result
            diff == r.workdays - r.sick - r.vacation
        IN /\ r.worked >= 0
           /\ (diff >= 0 => r.worked = diff)
           /\ (diff < 0 => r.worked = 0)

C1_Witness ==
    /\ smartReport # NoReport
    /\ smartReport.result.workdays > 0
    /\ smartReport.result.sick + smartReport.result.vacation > smartReport.result.workdays
    /\ smartReport.result.worked = 0

\* C2: for a period that has started, workdays is the number of Monday-to-Friday
\* dates of the period up to and including today; no later date is counted.
C2_WorkdaysUpToToday ==
    (smartReport # NoReport /\ PeriodStarted) =>
        smartReport.result.workdays =
            Cardinality({ d \in ReportDays : d <= today /\ IsMonToFri(d) })

C2_Witness ==
    /\ smartReport # NoReport
    /\ today \in ReportDays
    /\ IsMonToFri(today)
    /\ \E d \in ReportDays : d > today /\ IsMonToFri(d)
    /\ \E d \in ReportDays : d < today /\ ~IsMonToFri(d)
    /\ smartReport.result.workdays > 0

\* C3: a report for a period whose first day is after today is all zeros, even
\* when sick or vacation rows are stored for dates inside the period.
C3_FuturePeriodAllZero ==
    (smartReport # NoReport /\ PeriodInFuture) =>
        smartReport.result = [workdays |-> 0, worked |-> 0, sick |-> 0, vacation |-> 0]

C3_Witness ==
    /\ smartReport # NoReport
    /\ PeriodInFuture
    /\ OwnRows("sick") # {}
    /\ OwnRows("vacation") # {}
    /\ smartReport.result.sick = 0

\* C4: for a period that has started, sick and vacation count the employee's
\* stored rows of that status dated anywhere in the whole period (weekends and
\* dates after today included); rows with status worked and rows of other
\* employees change no field of the report.
C4_ExceptionsUnclipped ==
    (smartReport # NoReport /\ PeriodStarted) =>
        LET own == { r \in attendance : /\ r.employee_id = smartReport.employee_id
                                        /\ r.status # "worked" }
        IN /\ smartReport.result.sick = Cardinality(OwnRows("sick"))
           /\ smartReport.result.vacation = Cardinality(OwnRows("vacation"))
           /\ smartReport.result =
                  IF smartReport.kind = "monthly"
                  THEN SmartMonthlyReport(own, today, smartReport.employee_id,
                                          smartReport.year, smartReport.month)
                  ELSE SmartYearlyReport(own, today, smartReport.employee_id,
                                         smartReport.year)

C4_Witness ==
    /\ smartReport # NoReport
    /\ PeriodStarted
    /\ \E r \in OwnRows("sick") : DayOf[r.date] > today /\ ~IsMonToFri(DayOf[r.date])
    /\ OwnRows("worked") # {}
    /\ \E r \in attendance : /\ r.employee_id # smartReport.employee_id
                              /\ r.status = "sick"
                              /\ DayOf[r.date] \in ReportDays
    /\ smartReport.result.sick = 1

(***************************************************************************)
(* Salary deduction properties (specification SpecSalary)                  *)
(***************************************************************************)
\* x = p / q for a finite x and integers p, q with q # 0, by cross-multiplication
IsQuotient(x, p, q) == x.kind = "fin" /\ x.n * q = p * x.d

\* C5: with workdays > 0, adjustedSalary = baseSalary * (workdays - sick) / workdays
\* and deductionAmount = baseSalary - adjustedSalary; base 4000 with 20 workdays
\* and 5 sick gives 3000 and 1000; workdays = sick gives adjustedSalary 0.
C5_ProRataFormula ==
    (deduction # NoResult /\ report.workdays > 0) =>
        LET adj == deduction.adjustedSalary
            ded == deduction.deductionAmount
        IN /\ IsQuotient(adj, baseSalary.n * (report.workdays - report.sick),
                              baseSalary.d * report.workdays)
           /\ IsQuotient(ded, baseSalary.n * adj.d - adj.n * baseSalary.d,
                              baseSalary.d * adj.d)
           /\ (baseSalary = Num(4000) /\ report.workdays = 20 /\ report.sick = 5
                  => adj = Num(3000) /\ ded = Num(1000))
           /\ (report.workdays = report.sick => adj = Num(0))

C5_Witness ==
    /\ deduction # NoResult
    /\ baseSalary = Num(4000) /\ report.workdays = 20 /\ report.sick = 5
    /\ report.vacation > 0
    /\ deduction.adjustedSalary = Num(3000)
    /\ deduction.deductionAmount = Num(1000)

\* C6: the result does not depend on report.vacation or report.worked, and with
\* sick = 0 it is adjustedSalary = baseSalary, deductionAmount = 0 whatever the
\* vacation count.
C6_VacationIgnored ==
    deduction # NoResult =>
        /\ \A v \in 0 .. MaxVacation, w \in 0 .. MaxWorkdays :
              SalaryDeduction(baseSalary, [report EXCEPT !.vacation = v, !.worked = w])
                  = deduction
        /\ (report.sick = 0 =>
              deduction.adjustedSalary = baseSalary /\ deduction.deductionAmount = Num(0))

C6_Witness ==
    /\ deduction # NoResult
    /\ report.workdays > 0 /\ report.sick = 0 /\ report.vacation = MaxVacation
    /\ baseSalary = Num(3000)
    /\ deduction.adjustedSalary = Num(3000)

\* C7: with workdays = 0 the result is adjustedSalary = baseSalary and
\* deductionAmount = 0 for every sick count, sick > 0 included.
C7_ZeroWorkdays ==
    (deduction # NoResult /\ report.workdays = 0) =>
        /\ deduction.adjustedSalary = baseSalary
        /\ deduction.deductionAmount = Num(0)
        /\ deduction.sickDays = report.sick

C7_Witness ==
    /\ deduction # NoResult
    /\ report.workdays = 0 /\ report.sick > 0
    /\ baseSalary = Num(4000)
    /\ deduction.adjustedSalary = Num(4000)

(***************************************************************************)
(* Currency conversion properties (specification SpecCurrency)             *)
(***************************************************************************)
\* x = a * p / q for finite x, a and integers p, q with q # 0
IsScaled(x, a, p, q) == x.kind = "fin" /\ x.n * a.d * q = a.n * p * x.d

\* C8: convert(x, C, C, rates) returns x for every amount, currency and table,
\* the empty table and a table with a (C -> C) row of rate other than 1 included.
C8_IdentityConversion ==
    (converted # NoResult /\ from = to) => converted = amount

C8_Witness ==
    /\ converted # NoResult
    /\ from = to
    /\ \E r \in rates : r.from_curr = from /\ r.to_curr = to /\ r.rate # Num(1)
    /\ amount = Num(100)
    /\ converted = Num(100)

\* C9: with from # to, a finite amount and a (from -> to) row, the result is
\* amount times that row's rate; the USD pivot is not used even when both of
\* its rows are present.
C9_DirectRate ==
    (converted # NoResult /\ from # to /\ amount.kind = "fin") =>
        \A r \in rates :
            (r.from_curr = from /\ r.to_curr = to)
                => IsScaled(converted, amount, r.rate.n, r.rate.d)

C9_Witness ==
    /\ converted # NoResult
    /\ from # to
    /\ amount = Num(100)
    /\ \E r \in rates : r.from_curr = from /\ r.to_curr = to /\ r.rate = Num(3)
    /\ \E r \in rates : r.from_curr = from /\ r.to_curr = "USD" /\ r.rate = Num(3)
    /\ \E r \in rates : r.from_curr = "USD" /\ r.to_curr = to /\ r.rate = Fin(1, 2)
    /\ converted = Num(300)

\* No (from -> to) row, and rows (from -> USD) and (USD -> to)
PivotOnly ==
    /\ from # to
    /\ ~\E r \in rates : r.from_curr = from /\ r.to_curr = to
    /\ \E r \in rates : r.from_curr = from /\ r.to_curr = "USD"
    /\ \E r \in rates : r.from_curr = "USD" /\ r.to_curr = to

\* The JavaScript product amount * p1/q1 * p2/q2 for positive rates
IsPivotProduct(x, a, r1, r2) ==
    IF a.kind = "fin" THEN IsScaled(x, a, r1.n * r2.n, r1.d * r2.d)
    ELSE IF a.kind = "null" THEN x = Num(0)
    ELSE IF a.kind = "inf" THEN x = a
    ELSE x = NaN

\* C10 as stated: with from # to, no direct row and both USD legs, the result
\* is amount * rate(from, USD) * rate(USD, to), whatever the amount.
C10_PivotAnyAmount ==
    (converted # NoResult /\ PivotOnly) =>
        \A r1, r2 \in rates :
            (r1.from_curr = from /\ r1.to_curr = "USD" /\ r2.from_curr = "USD" /\ r2.to_curr = to)
                => IsPivotProduct(converted, amount, r1.rate, r2.rate)

\* C10 amended: with from # to, no direct row, both USD legs and an amount that
\* is neither NaN nor undefined, the result is amount * rate(from, USD) *
\* rate(USD, to); for a NaN or undefined amount the result is 0.
C10_PivotProduct ==
    (converted # NoResult /\ PivotOnly) =>
        \A r1, r2 \in rates :
            (r1.from_curr = from /\ r1.to_curr = "USD" /\ r2.from_curr = "USD" /\ r2.to_curr = to)
                => IF amount.kind \in {"nan", "undefined"}
                   THEN converted = Num(0)
                   ELSE IsPivotProduct(converted, amount, r1.rate, r2.rate)

C10_Witness ==
    /\ converted # NoResult
    /\ PivotOnly
    /\ amount = Num(100)
    /\ \E r \in rates : r.from_curr = from /\ r.to_curr = "USD" /\ r.rate = Num(3)
    /\ \E r \in rates : r.from_curr = "USD" /\ r.to_curr = to /\ r.rate = Fin(1, 2)
    /\ converted = Num(150)

\* No (from -> to) row and not both of the rows (from -> USD), (USD -> to)
NoRatePath ==
    /\ from # to
    /\ ~\E r \in rates : r.from_curr = from /\ r.to_curr = to
    /\ ~(/\ \E r \in rates : r.from_curr = from /\ r.to_curr = "USD"
         /\ \E r \in rates : r.from_curr = "USD" /\ r.to_curr = to)

\* A NaN amount or a missing one (null, undefined)
AmountNaNOrMissing == amount.kind \in {"nan", "null", "undefined"}

\* C11 as stated: with from # to and neither a direct row nor both USD legs,
\* the result is the input amount, whatever the amount.
C11_NoPathAnyAmount ==
    (converted # NoResult /\ NoRatePath) => converted = amount

\* C11 amended: with from # to and neither a direct row nor both USD legs, the
\* result is the input amount when the table is empty or the amount is neither
\* NaN nor missing; with a non-empty table and a NaN or missing amount it is 0.
C11_NoPathUnchanged ==
    (converted # NoResult /\ NoRatePath) =>
        IF rates = {} \/ ~AmountNaNOrMissing
        THEN converted = amount
        ELSE converted = Num(0)

C11_Witness ==
    /\ converted # NoResult
    /\ NoRatePath
    /\ \E r \in rates : r.from_curr = from /\ r.to_curr = "USD"
    /\ \E r \in rates : r.from_curr = to /\ r.to_curr = from
    /\ amount = Num(100)
    /\ converted = Num(100)

\* C12 as stated: with from # to, every amount that is not a finite number
\* (NaN, +-Infinity, missing) gives 0, whether or not the table is empty.
C12_NonFiniteIsZero ==
    (converted # NoResult /\ from # to /\ amount.kind # "fin") => converted = Num(0)

\* C12 amended: with from # to and a non-empty table, a NaN or missing amount
\* gives 0; with an empty table the amount is returned as it is; an infinite
\* amount is never replaced by 0 (it stays infinite).
C12_NaNIsZero ==
    (converted # NoResult /\ from # to) =>
        /\ (rates # {} /\ AmountNaNOrMissing => converted = Num(0))
        /\ (rates = {} => converted = amount)
        /\ (amount.kind = "inf" => converted = amount)

C12_Witness ==
    /\ converted # NoResult
    /\ from # to
    /\ amount = NaN
    /\ \E r \in rates : r.from_curr = from /\ r.to_curr = to
    /\ converted = Num(0)

(***************************************************************************)
(* Cost total properties (specification SpecCosts)                         *)
(***************************************************************************)
\* The sum of f[i] over the indices in S
RECURSIVE SumOver(_, _)
SumOver(S, f) ==
    IF S = {} THEN Num(0)
    ELSE LET i == CHOOSE j \in S : TRUE
         IN JsAdd(f[i], SumOver(S \ {i}, f))

\* The converted amount of each cost of the page
ConvertedCost ==
    [i \in DOMAIN costs |->
        ConvertCurrency(costs[i].amount, costs[i].currency, displayCurrency, pageRates)]

\* The costs C13 counts for the target month
CountedCosts ==
    { i \in DOMAIN costs :
        \/ /\ costs[i].is_recurring
           /\ costs[i].is_active
           /\ costs[i].year * 12 + costs[i].month <= costTarget[1] * 12 + costTarget[2]
        \/ /\ ~costs[i].is_recurring
           /\ <<costs[i].year, costs[i].month>> = costTarget }

\* C13: the cost total of a target month is the sum of the converted amounts of
\* exactly the active recurring costs started in or before that month and the
\* one-time costs dated in that month.
C13_CostMonthTotal ==
    costTotal # NoResult =>
        /\ costTotal = SumOver(CountedCosts, ConvertedCost)
        /\ \A i \in DOMAIN costs :
              /\ (/\ costs[i].is_recurring /\ <<costs[i].year, costs[i].month>> = <<2024, 1>>
                  /\ costTarget = <<2024, 6>>)
                    => (i \in CountedCosts <=> costs[i].is_active)
              /\ (/\ ~costs[i].is_recurring /\ <<costs[i].year, costs[i].month>> = <<2024, 3>>
                  /\ costTarget = <<2024, 4>>)
                    => i \notin CountedCosts

C13_Witness ==
    /\ costTotal # NoResult
    /\ costTarget = <<2024, 6>>
    /\ displayCurrency = "USD" /\ pageRates = UsdSekRates
    /\ Len(costs) = 2
    /\ costs[1] = [amount |-> Num(100), currency |-> "USD", year |-> 2024, month |-> 1,
                   is_recurring |-> TRUE, is_active |-> TRUE]
    /\ costs[2] = [amount |-> Num(70), currency |-> "SEK", year |-> 2024, month |-> 1,
                   is_recurring |-> TRUE, is_active |-> FALSE]
    /\ costTotal = Num(100)

(***************************************************************************)
(* Income properties (specification SpecIncome)                            *)
(***************************************************************************)
ConvertedFee ==
    [i \in DOMAIN contracts |->
        ConvertCurrency(contracts[i].monthly_fee, contracts[i].currency,
                        displayCurrency, pageRates)]
ConvertedAd ==
    [i \in DOMAIN adRevenue |->
        ConvertCurrency(adRevenue[i].amount, adRevenue[i].currency, displayCurrency, pageRates)]
ConvertedIap ==
    [i \in DOMAIN iapRevenue |->
        ConvertCurrency(iapRevenue[i].amount, iapRevenue[i].currency, displayCurrency, pageRates)]

ActiveContracts == { i \in DOMAIN contracts : contracts[i].is_active }
AdOfSelected ==
    { i \in DOMAIN adRevenue : <<adRevenue[i].year, adRevenue[i].month>> = selected }
IapOfSelected ==
    { i \in DOMAIN iapRevenue : <<iapRevenue[i].year, iapRevenue[i].month>> = selected }

\* C15: the income of the selected month is the converted monthly fees of the
\* active contracts, plus the converted ad revenue entry of that month (0 when
\* there is none), plus the converted in-app entries of that month on every
\* platform.
C15_IncomeForPeriod ==
    income # NoResult =>
        /\ Cardinality(AdOfSelected) <= 1
        /\ income.total =
              JsAdd(JsAdd(SumOver(ActiveContracts, ConvertedFee),
                          SumOver(AdOfSelected, ConvertedAd)),
                    SumOver(IapOfSelected, ConvertedIap))

C15_Witness ==
    /\ income # NoResult
    /\ displayCurrency = "USD" /\ pageRates = UsdSekRates
    /\ selected = <<2024, 3>>
    /\ Len(contracts) = 2 /\ ActiveContracts = {1}
    /\ contracts[1].currency = "SEK" /\ contracts[2].currency = "USD"
    /\ Cardinality(AdOfSelected) = 1
    /\ Len(iapRevenue) = 2 /\ Cardinality(IapOfSelected) = 2
    /\ income.total = Num(50 + 4 + 30 + 5)

(***************************************************************************)
(* Report page properties (specification SpecPage)                         *)
(***************************************************************************)
\* The converted base salary of each employee of the page
ConvertedSalary ==
    [k \in DOMAIN EmployeeRows |->
        ConvertCurrency(EmployeeRows[k].salary, EmployeeRows[k].currency,
                        displayCurrency, pageRates)]

\* The adjusted salary of each employee under a map of reports
AdjustedUnder(reports) ==
    [k \in DOMAIN EmployeeRows |->
        IF EmployeeRows[k].id \in DOMAIN reports
        THEN SalaryDeduction(ConvertedSalary[k], reports[EmployeeRows[k].id]).adjustedSalary
        ELSE ConvertedSalary[k]]

CostsOfSelected ==
    SumOver({ i \in DOMAIN costs : CostApplies(costs[i], selected[1], selected[2]) },
            ConvertedCost)

\* C16: the net shown for the month is the month's income minus its expenses,
\* the expenses being the adjusted salaries plus the cost entries active for
\* the month; a positive net is framed as profit, a negative one as loss.
C16_NetIsIncomeMinusExpenses ==
    shown.kpi # Loading =>
        LET net == JsSub(shown.income.total,
                         JsAdd(shown.salary.totalAdjusted, CostsOfSelected))
        IN /\ shown.kpi.netAmount = net
           /\ (net.kind = "fin" /\ net.n > 0) => shown.kpi.label = "Net Profit"
           /\ (net.kind = "fin" /\ net.n < 0) => shown.kpi.label = "Net Loss"

\* The reports of a month, computed from the attendance table as it is now
OwnReports(year, month) ==
    [id \in { EmployeeRows[k].id : k \in DOMAIN EmployeeRows } |->
        SmartMonthlyReport(attendance, today, id, year, month)]

\* C17: every point of the chart equals the aggregation of its own month from
\* that month's own smart reports, whichever months were viewed before and
\* whatever the cache holds.
C17_ChartPointsOwnMonth ==
    monthlyData # Unmounted =>
        \A k \in DOMAIN monthlyData :
            LET pt == monthlyData[k]
            IN /\ pt.income =
                     IncomeForPeriod(contracts, adRevenue, iapRevenue, pt.year, pt.monthNum,
                                     displayCurrency, pageRates).total
               /\ pt.expenses =
                     SumOver(DOMAIN EmployeeRows, AdjustedUnder(OwnReports(pt.year, pt.monthNum)))

(***************************************************************************)
(* Attendance table properties (specification SpecStore)                   *)
(***************************************************************************)
RowsOf(k) == { r \in attendance : r.employee_id = k[1] /\ r.date = k[2] }

MarchRowsOf(e) ==
    { r \in attendance : /\ r.employee_id = e
                         /\ r.date >= DateStr(2024, 3, 1)
                         /\ r.date <= DateStr(2024, 3, 31) }

\* The report asked for is March 2024 of an employee whose only March records
\* are 2 sick and 1 vacation, and the clock is on or after 2024-03-31
MarchScenario ==
    /\ smartReport # NoReport
    /\ smartReport.kind = "monthly" /\ smartReport.year = 2024 /\ smartReport.month = 3
    /\ today >= NewDate(2024, 2, 31).day
    /\ Cardinality(MarchRowsOf(smartReport.employee_id)) = 3
    /\ Cardinality({ r \in MarchRowsOf(smartReport.employee_id) : r.status = "sick" }) = 2
    /\ Cardinality({ r \in MarchRowsOf(smartReport.employee_id) : r.status = "vacation" }) = 1

\* C19: with the clock on or after 2024-03-31 and 2 sick and 1 vacation as the
\* employee's only March 2024 records, the monthly report of March 2024 is
\* {workdays 21, worked 18, sick 2, vacation 1}; with base salary 3000 the
\* adjusted salary is 3000 * 19 / 21 and the deduction 3000 * 2 / 21.
C19_MarchScenario ==
    MarchScenario =>
        /\ smartReport.result = [workdays |-> 21, worked |-> 18, sick |-> 2, vacation |-> 1]
        /\ (deduction # NoResult /\ baseSalary = Num(3000)) =>
              /\ deduction.adjustedSalary = Fin(3000 * 19, 21)
              /\ deduction.deductionAmount = Fin(3000 * 2, 21)

C19_Witness ==
    /\ MarchScenario
    /\ today = NewDate(2024, 2, 31).day
    /\ baseSalary = Num(3000)
    /\ deduction # NoResult
    /\ deduction.baseSalary = Num(3000)
    /\ deduction.sickDays = 2 /\ deduction.workdays = 21

(***************************************************************************)
(* Daily summary properties (specification SpecDaily)                      *)
(***************************************************************************)
EntriesWith(s) == { i \in DOMAIN dailyEntries : dailyEntries[i].status = s }

\* C20: an employee is counted as worked if and only if the status is 'worked'
\* or the date is a weekday and there is no record; as sick or vacation exactly
\* when the record says so; and in none of the totals with no record on a
\* Saturday or Sunday.
C20_DailySummary ==
    dailySummary # NoResult =>
        LET weekday == IsMonToFri(currentDate.day)
        IN /\ dailySummary.worked =
                 Cardinality(EntriesWith("worked"))
                 + (IF weekday THEN Cardinality(EntriesWith(NoStatus)) ELSE 0)
           /\ dailySummary.sick = Cardinality(EntriesWith("sick"))
           /\ dailySummary.vacation = Cardinality(EntriesWith("vacation"))
           /\ ~weekday =>
                 dailySummary.worked + dailySummary.sick + dailySummary.vacation
                    = Len(dailyEntries) - Cardinality(EntriesWith(NoStatus))

C20_Witness ==
    /\ dailySummary = [worked |-> 1, sick |-> 1, vacation |-> 0]
    /\ currentDate.day = NewDate(2024, 2, 2).day
    /\ Len(dailyEntries) = 3
    /\ Cardinality(EntriesWith(NoStatus)) = 1

(***************************************************************************)
(* Weekday counter properties (specification SpecWeekdays)                 *)
(***************************************************************************)
\* C21: a call of the weekday counter with an invalid date raises an error
\* instead of returning a count.
C21_InvalidDateRaises ==
    (/\ weekdayResult # NoResult
     /\ IsInvalidDate(weekdayArgs.startDate) \/ IsInvalidDate(weekdayArgs.endDate))
        => weekdayResult.kind = "threw"

(***************************************************************************)
(* Yearly against monthly reports (specification SpecYear)                 *)
(***************************************************************************)
\* The twelve monthly reports of the year and employee of the yearly report,
\* for the same table and clock
MonthlyOfYear ==
    [m \in Months |->
        SmartMonthlyReport(attendance, today, smartReport.employee_id, smartReport.year, m)]

RECURSIVE SumInts(_, _)
SumInts(S, f) ==
    IF S = {} THEN 0
    ELSE LET i == CHOOSE j \in S : TRUE IN f[i] + SumInts(S \ {i}, f)

\* C22: for a fixed clock and table, the sick count and the vacation count of
\* the yearly report each equal the sum of the counts of the twelve monthly
\* reports of that year for the same employee.
C22_YearlyIsSumOfMonthly ==
    (smartReport # NoReport /\ smartReport.kind = "yearly") =>
        /\ smartReport.result.sick = SumInts(Months, [m \in Months |-> MonthlyOfYear[m].sick])
        /\ smartReport.result.vacation =
              SumInts(Months, [m \in Months |-> MonthlyOfYear[m].vacation])

(***************************************************************************)
(* Report page: fetches that overlap (specification SpecPage)              *)
(***************************************************************************)
\* C23: when the selected month changed while a fetch was in flight, then once
\* every fetch has resolved the displayed report map holds the reports of the
\* selected month, in whatever order the fetches resolved.
C23_SettledMapIsSelectedMonth ==
    fetches = <<>> =>
        \A id \in DOMAIN allEmployeeReports :
            allEmployeeReports[id] = OwnReports(selected[1], selected[2])[id]

\* C26: after the fetch for the selected month has completed, the chart's
\* expense value for the selected month equals the salary expense total shown
\* in the KPI area.
C26_ChartMatchesKpi ==
    (fetches = <<>> /\ monthlyData # Unmounted) =>
        /\ <<monthlyData[6].year, monthlyData[6].monthNum>> = selected
        /\ monthlyData[6].expenses = shown.salary.totalAdjusted

\* C24: when currency:fetchLatest returned success: true, all nine freshly
\* computed rows are in the table, and what fetchRates reads next is the new
\* rates
C24_SuccessMeansWritten ==
    (fetchLatestResult # NoResult /\ fetchLatestResult.success)
        => /\ \A i \in DOMAIN fetchLatestResult.rates :
                LET rate == fetchLatestResult.rates[i]
                IN  currencyRates[<<rate.from_curr, rate.to_curr>>] = rate.rate
           /\ hookRates # NoResult => hookRates = TableOf(fetchLatestResult.rates)

\* C25: for every report the smart report function returns and every base
\* salary >= 0, 0 <= adjustedSalary <= baseSalary and
\* 0 <= deductionAmount <= baseSalary
C25_DeductionWithinBase ==
    deduction # NoResult
        => /\ JsGE(deduction.adjustedSalary, Num(0))
           /\ JsGE(baseSalary, deduction.adjustedSalary)
           /\ JsGE(deduction.deductionAmount, Num(0))
           /\ JsGE(baseSalary, deduction.deductionAmount)

\* The rows of an employee on a date
RowsAt(rows, e, d) == { r \in rows : r.employee_id = e /\ r.date = d }

\* The entry of the highest number in I; I is a non-empty set of entry numbers
LastOf(entries, I) == entries[CHOOSE i \in I : \A j \in I : j <= i]

\* Do the rows show what the entry asks for: no row for a null status,
\* otherwise one row with the entry's status
ShowsEntry(rows, entry) ==
    IF entry.status = "null" THEN rows = {}
    ELSE Cardinality(rows) = 1 /\ \A r \in rows : r.status = entry.status

\* C27: a bulkSetAttendance(date, entries) call that resolved leaves, for each
\* employee named in entries, the state of that employee's last entry (no row
\* on the date for a null status, otherwise one row with that status), and
\* every row of another employee or another date is as it was
C27_LastEntryWins ==
    (lastBulk # NoResult /\ ~lastBulk.rejected)
        => LET named == { lastBulk.entries[i].employee_id : i \in DOMAIN lastBulk.entries }
           IN  /\ \A e \in named :
                     ShowsEntry(RowsAt(attendance, e, lastBulk.date),
                                LastOf(lastBulk.entries,
                                       { i \in DOMAIN lastBulk.entries :
                                           lastBulk.entries[i].employee_id = e }))
               /\ { r \in attendance : r.date # lastBulk.date \/ r.employee_id \notin named }
                    = { r \in lastBulk.before :
                          r.date # lastBulk.date \/ r.employee_id \notin named }

\* C28: when the write of entry number k throws, the call rejects, what the
\* entries 1 .. k-1 did remains and no entry from k on is applied: an employee
\* shows the last entry before k that took effect, or the rows from before
\* the call; the rows of other dates are as they were
C28_PrefixRemains ==
    (lastBulk # NoResult /\ lastBulk.stop <= Len(lastBulk.entries))
        => /\ lastBulk.rejected
           /\ \A e \in Employees :
                 LET applied == { i \in 1 .. lastBulk.stop - 1 :
                                    /\ lastBulk.entries[i].employee_id = e
                                    /\ i \notin lastBulk.missed }
                 IN  IF applied = {}
                     THEN RowsAt(attendance, e, lastBulk.date)
                             = RowsAt(lastBulk.before, e, lastBulk.date)
                     ELSE ShowsEntry(RowsAt(attendance, e, lastBulk.date),
                                     LastOf(lastBulk.entries, applied))
           /\ { r \in attendance : r.date # lastBulk.date }
                = { r \in lastBulk.before : r.date # lastBulk.date }

\* The write of the second of two entries threw after the first entry had
\* changed the table
C28_Witness ==
    /\ lastBulk # NoResult
    /\ Len(lastBulk.entries) = 2
    /\ lastBulk.stop = 2
    /\ lastBulk.rejected
    /\ lastBulk.entries[1].employee_id # lastBulk.entries[2].employee_id
    /\ attendance # lastBulk.before

\* The VAT due dates (Feb 12, May 12, Aug 12, Nov 12) around the modelled years
VatDueDays == { NewDate(y, m, 12).day : y \in 2024 .. 2026, m \in {1, 4, 7, 10} }

\* The year whose days include day number n
YearOfDay(n) == CHOOSE y \in Years : DaysBeforeYear(y) <= n /\ n < DaysBeforeYear(y + 1)

\* C29: getVatQuarterInfo(d) returns as dueDate the earliest of Feb 12, May 12,
\* Aug 12, Nov 12 that is on or after the day of d (a due date maps to
\* itself), and the quarter that payment covers: Q4 of the year before up to
\* Feb 12, then Q1, Q2, Q3 of the year, and Q4 of the year from Nov 13 on
C29_NextDueDate ==
    vatInfo # NoResult
        => LET n == vatDate.day
               y == YearOfDay(n)
               due == vatInfo.dueDate.day
               quarter == <<vatInfo.quarterLabel, vatInfo.quarterYear>>
           IN  /\ vatInfo.dueDate.ms = 0
               /\ due \in VatDueDays
               /\ due >= n
               /\ \A x \in VatDueDays : x >= n => due <= x
               /\ quarter =
                     IF n <= NewDate(y, 1, 12).day THEN <<"Q4", y - 1>>
                     ELSE IF n <= NewDate(y, 4, 12).day THEN <<"Q1", y>>
                     ELSE IF n <= NewDate(y, 7, 12).day THEN <<"Q2", y>>
                     ELSE IF n <= NewDate(y, 10, 12).day THEN <<"Q3", y>>
                     ELSE <<"Q4", y>>

\* Called at noon of a due date: 2025-02-12 maps to itself and to Q4 of 2024
C29_Witness ==
    /\ vatInfo # NoResult
    /\ vatDate = [day |-> NewDate(2025, 1, 12).day, ms |-> 12 * 3600000]
    /\ vatInfo.dueDate = NewDate(2025, 1, 12)
    /\ vatInfo.quarterLabel = "Q4"
    /\ vatInfo.quarterYear = 2024

\* C30: for every selected (year, month), month in 1..12, the chart series
\* is exactly six points, for six consecutive calendar months in
\* chronological order ending at the selected month, every month number in
\* 1..12, with the selected year less one for the points before its January
C30_SixConsecutiveMonths ==
    monthlyData # Unmounted
        => /\ DOMAIN monthlyData = 1 .. 6
           /\ monthlyData[6].year = selected[1]
           /\ monthlyData[6].monthNum = selected[2]
           /\ \A k \in 1 .. 6 :
                 /\ monthlyData[k].monthNum \in 1 .. 12
                 /\ monthlyData[k].year =
                       IF selected[2] - (6 - k) < 1 THEN selected[1] - 1 ELSE selected[1]
           /\ \A k \in 1 .. 5 :
                 \/ /\ monthlyData[k + 1].year = monthlyData[k].year
                    /\ monthlyData[k + 1].monthNum = monthlyData[k].monthNum + 1
                 \/ /\ monthlyData[k + 1].year = monthlyData[k].year + 1
                    /\ monthlyData[k].monthNum = 12
                    /\ monthlyData[k + 1].monthNum = 1

\* The chart for February 2024 starts in September 2023 and crosses the year
C30_Witness ==
    /\ monthlyData # Unmounted
    /\ selected = <<2024, 2>>
    /\ monthlyData[1].year = 2023 /\ monthlyData[1].monthNum = 9
    /\ monthlyData[4].monthNum = 12 /\ monthlyData[5].monthNum = 1

====
